---- MODULE Spec2Model ----
(***************************************************************************)
(* Verification model of the universal multi-segmented bi-buffer bus.      *)
(*                                                                         *)
(* Part 1  RingBuffer (src/RingBuffer.hpp): producer segments of slots     *)
(*         with an atomic state, driven by threads that run produce,       *)
(*         consume, writeFeedback and collectFeedback one memory access    *)
(*         at a time.                                                      *)
(* Part 2  umsbb_complete_core (src/umsbb_complete_core.c): the handle     *)
(*         registry and the segmented byte buffer.                         *)
(* Part 3  the lane bus (src/src/universal_multi_segmented_bi_buffer_bus.c *)
(*         and src/somakernel/src/somakernel.c) over BiBuffer lanes.       *)
(*                                                                         *)
(* Each part has its own specification; the variables of the other parts   *)
(* stay at their initial value.                                            *)
(***************************************************************************)
EXTENDS Integers, Sequences, FiniteSets, TLC

VARIABLES
    \* ---- RingBuffer ----
    producers,      \* RingBuffer::producers : index -> segment record or Null
    consumers,      \* RingBuffer::consumers : index -> BOOLEAN
    rb_pc,          \* per thread: position inside the running operation
    rb_loc,         \* per thread: locals of the running operation
    rb_out,         \* per thread: outputs of its last successful consume (the ticket)
    rb_accepted,    \* history: messages for which produce returned true, in order
    rb_committed,   \* history: messages whose produce won the FREE->READY CAS
    rb_delivered,   \* history: messages returned by successful consume calls, in order
    rb_collected,   \* history: what successful collectFeedback calls returned, in order
    rb_ops,         \* calls the run may still start
    \* ---- umsbb_complete_core ----
    g_buffers,      \* registry: handle -> heap address of the buffer (absent = NULL)
    g_next_handle,  \* the handle counter
    g_active_buffers,
    ts_counter,     \* the static counter of umsbb_get_timestamp
    heap,           \* heap address -> umsbb_buffer_t (kept after free, marked freed)
    core_pc,        \* per thread: position inside the running call
    core_loc,       \* per thread: locals of the running call
    core_last,      \* per thread: the last call that returned and its result
    core_issued,    \* history: the handles umsbb_create_buffer returned, in order
    core_destroyed, \* history: handles for which umsbb_destroy_buffer returned SUCCESS
    core_left,      \* the run: its number of threads, and the calls it may still
                    \* start, per kind
    \* ---- the lane bus ----
    bus,            \* the UniversalMultiSegmentedBiBufferBus or SomakernelBus
    lane_mem,       \* the callers' message buffers, by address
    lane_last,      \* history: the last call, what it saw and its result
    lane_left,      \* calls the run may still start, per kind
    lane_pc,        \* the submitting and the draining thread: the position of
                    \* each inside its running call
    lane_waits,     \* history, per lane: the somakernel_drain calls that went to
                    \* another lane since this lane, holding a message, was last
                    \* visited by one
    \* ---- umsbb_wasm_core ----
    wasm_buffer,    \* the umsbb_buffer_t of the buffer that was created
    wasm_last,      \* history: the last call and its result
    wasm_left,      \* calls the run may still start, per kind
    \* ---- the handshake manager ----
    manager,        \* the handshake_manager_t
    hs_last,        \* history: the last call and its result
    hs_left         \* calls the run may still start, per kind

rbVars == <<producers, consumers, rb_pc, rb_loc, rb_out, rb_accepted,
            rb_committed, rb_delivered, rb_collected, rb_ops>>

coreVars == <<g_buffers, g_next_handle, g_active_buffers, ts_counter, heap, core_pc,
              core_loc, core_last, core_issued, core_destroyed, core_left>>

laneVars == <<bus, lane_mem, lane_last, lane_left, lane_pc, lane_waits>>

wasmVars == <<wasm_buffer, wasm_last, wasm_left>>

hsVars == <<manager, hs_last, hs_left>>

vars == <<rbVars, coreVars, laneVars, wasmVars, hsVars>>

\* a step of one part leaves the other parts alone
RingOnly == UNCHANGED <<coreVars, laneVars, wasmVars, hsVars>>
CoreOnly == UNCHANGED <<rbVars, laneVars, wasmVars, hsVars>>
LaneOnly == UNCHANGED <<rbVars, coreVars, wasmVars, hsVars>>
WasmOnly == UNCHANGED <<rbVars, coreVars, laneVars, hsVars>>
HandshakeOnly == UNCHANGED <<rbVars, coreVars, laneVars, wasmVars>>

\* A null pointer (a record, so that it compares with the records it stands in for)
Null == [null |-> TRUE]

(***************************************************************************)
(* Part 1: RingBuffer                                                      *)
(***************************************************************************)

\* Bounds of the RingBuffer model
RbMaxProducers == 1
RbMaxConsumers == 2
RbSlotsPerProducer == 2
RbNumConsumerThreads == 2
RbMaxOps == 4
\* calls a run without concurrency may start
RbSeqMaxOps == 7
\* calls an endless run starts before its histories are dropped
RbLiveMaxOps == 1

\* Thread 0 runs the producer side (produce, collectFeedback); the other
\* threads run the consumer side (consume, writeFeedback).
RbProducerThreads == {0}
RbConsumerThreads == 1..RbNumConsumerThreads
RbThreads == RbProducerThreads \cup RbConsumerThreads

\* enum SlotState
FREE == 0
READY == 1
CONSUMING == 2
FEEDBACK == 3

\* A value-initialised Message (make_unique<Slot>() zero-initialises the scalars)
DefaultMessage ==
    [msg_id |-> 0, producer_id |-> 0, consumer_id |-> 0,
     meta_type |-> 0, meta |-> "", payload |-> ""]

\* `of` is not a member of the struct: it records the msg_id of the message
\* the writer of the feedback had consumed
DefaultFeedback == [status |-> 0, detail |-> "", of |-> 0]

NewSlot == [state |-> FREE, msg |-> DefaultMessage, fb |-> DefaultFeedback]

NewProducerSegment(pid, count) ==
    [id |-> pid, slots_count |-> count, head |-> 0, active |-> TRUE,
     slots |-> [i \in 0..(count - 1) |-> NewSlot]]

\* vector size
VSize(v) == Cardinality(DOMAIN v)

\* vector push_back
PushBack(v, x) == [i \in 0..VSize(v) |-> IF i < VSize(v) THEN v[i] ELSE x]

\* The message a caller hands to produce: the id-th message of the run,
\* addressed to consumer cid.  The caller leaves producer_id unset; the
\* representative value is an id that names no segment.
InputMessage(id, cid) ==
    [msg_id |-> id, producer_id |-> RbMaxProducers, consumer_id |-> cid,
     meta_type |-> id, meta |-> "m" \o ToString(id), payload |-> "p" \o ToString(id)]

RbIdleLoc == [op |-> "none"]
RbNoOut == [ok |-> FALSE]

RbAllIdle == \A t \in RbThreads : rb_pc[t] = "idle"

\* A RingBuffer as constructed, and a run that may start `ops` calls
RbStart(ops) ==
    /\ producers = << >>
    /\ consumers = << >>
    /\ rb_pc = [t \in RbThreads |-> "idle"]
    /\ rb_loc = [t \in RbThreads |-> RbIdleLoc]
    /\ rb_out = [t \in RbThreads |-> RbNoOut]
    /\ rb_accepted = << >>
    /\ rb_committed = {}
    /\ rb_delivered = << >>
    /\ rb_collected = << >>
    /\ rb_ops = ops

RbInit == RbStart(RbMaxOps)

RbHistUnchanged == UNCHANGED <<rb_accepted, rb_committed, rb_delivered, rb_collected>>

\* pid < producers.size() && producers[pid]
ValidProducer(pid) == pid \in DOMAIN producers /\ producers[pid] # Null

\* cid < consumers.size() && consumers[cid]
ValidConsumer(cid) == cid \in DOMAIN consumers /\ consumers[cid]

SlotOf(pid, idx) == producers[pid].slots[idx]

SetSlotState(pid, idx, st) ==
    [producers EXCEPT ![pid].slots[idx].state = st]

\* ---- attach (under the RingBuffer mutex, before the threads start) ----

attachProducer(slots_per_producer) ==
    /\ RbAllIdle
    /\ VSize(producers) < RbMaxProducers
    /\ producers' = PushBack(producers,
                        NewProducerSegment(VSize(producers), slots_per_producer))
    /\ UNCHANGED <<consumers, rb_pc, rb_loc, rb_out, rb_ops>>
    /\ RbHistUnchanged
    /\ RingOnly

attachConsumer ==
    /\ RbAllIdle
    /\ VSize(consumers) < RbMaxConsumers
    /\ consumers' = PushBack(consumers, TRUE)
    /\ UNCHANGED <<producers, rb_pc, rb_loc, rb_out, rb_ops>>
    /\ RbHistUnchanged
    /\ RingOnly

\* ---- detach (under the RingBuffer mutex) ----

\* detachProducer: producers[pid].reset() frees the segment and its slots
detachProducer(pid) ==
    /\ RbAllIdle
    /\ producers' = IF ValidProducer(pid) THEN [producers EXCEPT ![pid] = Null]
                    ELSE producers
    /\ UNCHANGED <<consumers, rb_pc, rb_loc, rb_out, rb_ops>>
    /\ RbHistUnchanged
    /\ RingOnly

detachConsumer(cid) ==
    /\ RbAllIdle
    /\ consumers' = IF cid \in DOMAIN consumers THEN [consumers EXCEPT ![cid] = FALSE]
                    ELSE consumers
    /\ UNCHANGED <<producers, rb_pc, rb_loc, rb_out, rb_ops>>
    /\ RbHistUnchanged
    /\ RingOnly

\* ---- produce ----

\* The id of the next message handed to produce
RbNextMsgId == rb_ops

\* lines 96-100: validity checks and head.fetch_add(1) % slots_count
produce(t, pid, cid) ==
    /\ rb_pc[t] = "idle"
    /\ rb_ops > 0
    /\ rb_ops' = rb_ops - 1
    /\ IF ValidProducer(pid) /\ producers[pid].active
       THEN /\ producers' = [producers EXCEPT ![pid].head = @ + 1]
            /\ rb_pc' = [rb_pc EXCEPT ![t] = "p_cas"]
            /\ rb_loc' = [rb_loc EXCEPT ![t] =
                    [op |-> "produce", pid |-> pid,
                     idx |-> producers[pid].head % producers[pid].slots_count,
                     m |-> InputMessage(RbNextMsgId, cid)]]
       ELSE UNCHANGED <<producers, rb_pc, rb_loc>>
    /\ UNCHANGED <<consumers, rb_out>>
    /\ RbHistUnchanged
    /\ RingOnly

\* lines 103-104: compare_exchange_strong(FREE, READY)
produce_cas(t) ==
    /\ rb_pc[t] = "p_cas"
    /\ LET l == rb_loc[t] IN
       IF SlotOf(l.pid, l.idx).state = FREE
       THEN /\ producers' = SetSlotState(l.pid, l.idx, READY)
            /\ rb_pc' = [rb_pc EXCEPT ![t] = "p_write"]
            /\ rb_committed' = rb_committed \cup {[l.m EXCEPT !.producer_id = l.pid]}
            /\ UNCHANGED rb_loc
       ELSE /\ rb_pc' = [rb_pc EXCEPT ![t] = "idle"]
            /\ rb_loc' = [rb_loc EXCEPT ![t] = RbIdleLoc]
            /\ UNCHANGED <<producers, rb_committed>>
    /\ UNCHANGED <<consumers, rb_out, rb_accepted, rb_delivered, rb_collected, rb_ops>>
    /\ RingOnly

\* line 106, s->msg = m: a member-wise plain copy, in declaration order.  The
\* model splits it in two stores, the four integer members and then the two
\* strings, so that a concurrent reader can see the message half written.
produce_write_ids(t) ==
    /\ rb_pc[t] = "p_write"
    /\ LET l == rb_loc[t] IN
       producers' = [producers EXCEPT ![l.pid].slots[l.idx].msg =
            [@ EXCEPT !.msg_id = l.m.msg_id, !.producer_id = l.m.producer_id,
                      !.consumer_id = l.m.consumer_id, !.meta_type = l.m.meta_type]]
    /\ rb_pc' = [rb_pc EXCEPT ![t] = "p_write_text"]
    /\ UNCHANGED <<consumers, rb_loc, rb_out, rb_ops>>
    /\ RbHistUnchanged
    /\ RingOnly

produce_write_text(t) ==
    /\ rb_pc[t] = "p_write_text"
    /\ LET l == rb_loc[t] IN
       producers' = [producers EXCEPT ![l.pid].slots[l.idx].msg =
            [@ EXCEPT !.meta = l.m.meta, !.payload = l.m.payload]]
    /\ rb_pc' = [rb_pc EXCEPT ![t] = "p_setpid"]
    /\ UNCHANGED <<consumers, rb_loc, rb_out, rb_ops>>
    /\ RbHistUnchanged
    /\ RingOnly

\* line 107: s->msg.producer_id = pid
produce_setpid(t) ==
    /\ rb_pc[t] = "p_setpid"
    /\ LET l == rb_loc[t] IN
       producers' = [producers EXCEPT ![l.pid].slots[l.idx].msg.producer_id = l.pid]
    /\ rb_pc' = [rb_pc EXCEPT ![t] = "p_store"]
    /\ UNCHANGED <<consumers, rb_loc, rb_out, rb_ops>>
    /\ RbHistUnchanged
    /\ RingOnly

\* lines 108-109: s->state.store(READY); return true
produce_store(t) ==
    /\ rb_pc[t] = "p_store"
    /\ LET l == rb_loc[t] IN
       /\ producers' = SetSlotState(l.pid, l.idx, READY)
       /\ rb_accepted' = Append(rb_accepted, [l.m EXCEPT !.producer_id = l.pid])
    /\ rb_pc' = [rb_pc EXCEPT ![t] = "idle"]
    /\ rb_loc' = [rb_loc EXCEPT ![t] = RbIdleLoc]
    /\ UNCHANGED <<consumers, rb_out, rb_committed, rb_delivered, rb_collected, rb_ops>>
    /\ RingOnly

\* ---- consume ----

\* The scan order of consume: segment by segment, slot by slot (lines 116-119).
\* Positions are <<p, i>>; RbScanEnd stands for the end of both loops.
RbScanEnd == <<VSize(producers), 0>>

RbScanNext(p, i) ==
    LET later == {q \in DOMAIN producers : q > p /\ producers[q] # Null
                                           /\ producers[q].slots_count > 0}
    IN
    IF p \in DOMAIN producers /\ producers[p] # Null /\ i + 1 < producers[p].slots_count
    THEN <<p, i + 1>>
    ELSE IF later = {} THEN RbScanEnd
         ELSE <<CHOOSE q \in later : \A r \in later : q <= r, 0>>

RbScanFirst == RbScanNext(-1, 0)

\* Leave the scan loops at position pos: either examine the next slot or
\* return false (line 132)
RbContinueScan(t, pos) ==
    IF pos = RbScanEnd
    THEN /\ rb_pc' = [rb_pc EXCEPT ![t] = "idle"]
         /\ rb_loc' = [rb_loc EXCEPT ![t] = RbIdleLoc]
    ELSE /\ rb_pc' = [rb_pc EXCEPT ![t] = "c_scan"]
         /\ rb_loc' = [rb_loc EXCEPT ![t] =
                [op |-> "consume", cid |-> rb_loc[t].cid, p |-> pos[1], i |-> pos[2]]]

\* line 114: the consumer check, and entry into the loops
consume(t, cid) ==
    /\ rb_pc[t] = "idle"
    /\ ~rb_out[t].ok
    /\ rb_ops > 0
    /\ rb_ops' = rb_ops - 1
    /\ IF ValidConsumer(cid) /\ RbScanFirst # RbScanEnd
       THEN /\ rb_pc' = [rb_pc EXCEPT ![t] = "c_scan"]
            /\ rb_loc' = [rb_loc EXCEPT ![t] =
                    [op |-> "consume", cid |-> cid,
                     p |-> RbScanFirst[1], i |-> RbScanFirst[2]]]
       ELSE UNCHANGED <<rb_pc, rb_loc>>
    /\ UNCHANGED <<producers, consumers, rb_out>>
    /\ RbHistUnchanged
    /\ RingOnly

\* line 121: s->state.load() == READY && s->msg.consumer_id == cid
consume_scan(t) ==
    /\ rb_pc[t] = "c_scan"
    /\ LET l == rb_loc[t]
           s == SlotOf(l.p, l.i)
       IN IF s.state = READY /\ s.msg.consumer_id = l.cid
          THEN /\ rb_pc' = [rb_pc EXCEPT ![t] = "c_cas"]
               /\ UNCHANGED rb_loc
          ELSE RbContinueScan(t, RbScanNext(l.p, l.i))
    /\ UNCHANGED <<producers, consumers, rb_out, rb_ops>>
    /\ RbHistUnchanged
    /\ RingOnly

\* lines 122-123: compare_exchange_strong(READY, CONSUMING)
consume_cas(t) ==
    /\ rb_pc[t] = "c_cas"
    /\ LET l == rb_loc[t] IN
       IF SlotOf(l.p, l.i).state = READY
       THEN /\ producers' = SetSlotState(l.p, l.i, CONSUMING)
            /\ rb_pc' = [rb_pc EXCEPT ![t] = "c_copy"]
            /\ UNCHANGED rb_loc
       ELSE /\ RbContinueScan(t, RbScanNext(l.p, l.i))
            /\ UNCHANGED producers
    /\ UNCHANGED <<consumers, rb_out, rb_ops>>
    /\ RbHistUnchanged
    /\ RingOnly

\* line 124, out_msg = s->msg: the member-wise plain copy, integers first
consume_copy_ids(t) ==
    /\ rb_pc[t] = "c_copy"
    /\ rb_loc' = [rb_loc EXCEPT ![t] =
            [op |-> "consume", cid |-> rb_loc[t].cid, p |-> rb_loc[t].p, i |-> rb_loc[t].i,
             out_msg |-> SlotOf(rb_loc[t].p, rb_loc[t].i).msg]]
    /\ rb_pc' = [rb_pc EXCEPT ![t] = "c_copy_text"]
    /\ UNCHANGED <<producers, consumers, rb_out, rb_ops>>
    /\ RbHistUnchanged
    /\ RingOnly

\* lines 124-127: the strings of out_msg, out_pid, out_idx, return true
consume_copy_text(t) ==
    /\ rb_pc[t] = "c_copy_text"
    /\ LET l == rb_loc[t]
           s == SlotOf(l.p, l.i)
           out_msg == [l.out_msg EXCEPT !.meta = s.msg.meta, !.payload = s.msg.payload]
       IN /\ rb_out' = [rb_out EXCEPT ![t] =
                [ok |-> TRUE, pid |-> producers[l.p].id, idx |-> l.i,
                 msg_id |-> out_msg.msg_id]]
          /\ rb_delivered' = Append(rb_delivered,
                [cid |-> l.cid, msg |-> out_msg, pid |-> producers[l.p].id, idx |-> l.i])
    /\ rb_pc' = [rb_pc EXCEPT ![t] = "idle"]
    /\ rb_loc' = [rb_loc EXCEPT ![t] = RbIdleLoc]
    /\ UNCHANGED <<producers, consumers, rb_accepted, rb_committed, rb_collected, rb_ops>>
    /\ RingOnly

\* ---- writeFeedback ----

\* Feedback statuses a consumer reports: 1 = ack, 2 = nack
RbStatuses == {1, 2}

RbDetail(status) == IF status = 1 THEN "done" ELSE "failed"

\* lines 137-143: the checks and the two plain writes of s->fb.  The caller
\* passes the (pid, idx) its consume returned.
writeFeedback(t, status) ==
    /\ rb_pc[t] = "idle"
    /\ rb_out[t].ok
    /\ IF ValidProducer(rb_out[t].pid)
       THEN /\ producers' = [producers EXCEPT
                    ![rb_out[t].pid].slots[rb_out[t].idx].fb =
                        [status |-> status, detail |-> RbDetail(status),
                         of |-> rb_out[t].msg_id]]
            /\ rb_pc' = [rb_pc EXCEPT ![t] = "wf_store"]
            /\ rb_loc' = [rb_loc EXCEPT ![t] =
                    [op |-> "writeFeedback", pid |-> rb_out[t].pid, idx |-> rb_out[t].idx]]
       ELSE UNCHANGED <<producers, rb_pc, rb_loc>>
    /\ rb_out' = [rb_out EXCEPT ![t] = RbNoOut]
    /\ UNCHANGED <<consumers, rb_ops>>
    /\ RbHistUnchanged
    /\ RingOnly

\* line 144: s->state.store(FEEDBACK)
writeFeedback_store(t) ==
    /\ rb_pc[t] = "wf_store"
    /\ producers' = SetSlotState(rb_loc[t].pid, rb_loc[t].idx, FEEDBACK)
    /\ rb_pc' = [rb_pc EXCEPT ![t] = "idle"]
    /\ rb_loc' = [rb_loc EXCEPT ![t] = RbIdleLoc]
    /\ UNCHANGED <<consumers, rb_out, rb_ops>>
    /\ RbHistUnchanged
    /\ RingOnly

\* ---- collectFeedback ----

\* lines 149-153: the checks and entry into the loop
collectFeedback(t, pid) ==
    /\ rb_pc[t] = "idle"
    /\ rb_ops > 0
    /\ rb_ops' = rb_ops - 1
    /\ IF ValidProducer(pid) /\ producers[pid].slots_count > 0
       THEN /\ rb_pc' = [rb_pc EXCEPT ![t] = "cf_scan"]
            /\ rb_loc' = [rb_loc EXCEPT ![t] =
                    [op |-> "collectFeedback", pid |-> pid, i |-> 0]]
       ELSE UNCHANGED <<rb_pc, rb_loc>>
    /\ UNCHANGED <<producers, consumers, rb_out>>
    /\ RbHistUnchanged
    /\ RingOnly

\* line 155: s->state.load() == FEEDBACK
collectFeedback_scan(t) ==
    /\ rb_pc[t] = "cf_scan"
    /\ LET l == rb_loc[t] IN
       IF SlotOf(l.pid, l.i).state = FEEDBACK
       THEN /\ rb_pc' = [rb_pc EXCEPT ![t] = "cf_take"]
            /\ UNCHANGED rb_loc
       ELSE IF l.i + 1 < producers[l.pid].slots_count
            THEN /\ rb_loc' = [rb_loc EXCEPT ![t].i = @ + 1]
                 /\ UNCHANGED rb_pc
            ELSE /\ rb_pc' = [rb_pc EXCEPT ![t] = "idle"]
                 /\ rb_loc' = [rb_loc EXCEPT ![t] = RbIdleLoc]
    /\ UNCHANGED <<producers, consumers, rb_out, rb_ops>>
    /\ RbHistUnchanged
    /\ RingOnly

\* lines 156-157: out_fb = s->fb; msg_id = s->msg.msg_id
CollectedFrom(s) == [fb |-> s.fb, msg_id |-> s.msg.msg_id]

\* lines 156-159: copy the feedback out, s->state.store(FREE), return true
collectFeedback_take(t) ==
    /\ rb_pc[t] = "cf_take"
    /\ producers' = SetSlotState(rb_loc[t].pid, rb_loc[t].i, FREE)
    /\ rb_collected' = Append(rb_collected,
            CollectedFrom(SlotOf(rb_loc[t].pid, rb_loc[t].i)))
    /\ rb_pc' = [rb_pc EXCEPT ![t] = "idle"]
    /\ rb_loc' = [rb_loc EXCEPT ![t] = RbIdleLoc]
    /\ UNCHANGED <<consumers, rb_out, rb_ops, rb_accepted, rb_committed, rb_delivered>>
    /\ RingOnly

RbNext ==
    \/ attachProducer(RbSlotsPerProducer)
    \/ attachConsumer
    \/ \E t \in RbProducerThreads : \E pid \in 0..(RbMaxProducers - 1) :
          \E cid \in 0..(RbMaxConsumers - 1) : produce(t, pid, cid)
    \/ \E t \in RbThreads : produce_cas(t)
    \/ \E t \in RbThreads : produce_write_ids(t)
    \/ \E t \in RbThreads : produce_write_text(t)
    \/ \E t \in RbThreads : produce_setpid(t)
    \/ \E t \in RbThreads : produce_store(t)
    \/ \E t \in RbConsumerThreads : \E cid \in 0..(RbMaxConsumers - 1) : consume(t, cid)
    \/ \E t \in RbThreads : consume_scan(t)
    \/ \E t \in RbThreads : consume_cas(t)
    \/ \E t \in RbThreads : consume_copy_ids(t)
    \/ \E t \in RbThreads : consume_copy_text(t)
    \/ \E t \in RbThreads : \E status \in RbStatuses : writeFeedback(t, status)
    \/ \E t \in RbThreads : writeFeedback_store(t)
    \/ \E t \in RbProducerThreads : \E pid \in 0..(RbMaxProducers - 1) : collectFeedback(t, pid)
    \/ \E t \in RbThreads : collectFeedback_scan(t)
    \/ \E t \in RbThreads : collectFeedback_take(t)

\* the steps inside a call of thread t
RbStep(t) ==
    \/ produce_cas(t) \/ produce_write_ids(t) \/ produce_write_text(t)
    \/ produce_setpid(t) \/ produce_store(t)
    \/ consume_scan(t) \/ consume_cas(t) \/ consume_copy_ids(t) \/ consume_copy_text(t)
    \/ writeFeedback_store(t)
    \/ collectFeedback_scan(t) \/ collectFeedback_take(t)

\* A run without concurrency: thread 0 is the producer, thread 1 the consumer,
\* and a call starts only when no call is running
RbSeqProduce ==
    /\ RbAllIdle
    /\ \E pid \in 0..(RbMaxProducers - 1) : \E cid \in 0..(RbMaxConsumers - 1) :
          produce(0, pid, cid)

RbSeqConsume == RbAllIdle /\ \E cid \in 0..(RbMaxConsumers - 1) : consume(1, cid)

RbSeqWriteFeedback == RbAllIdle /\ \E status \in RbStatuses : writeFeedback(1, status)

RbSeqCollectFeedback ==
    RbAllIdle /\ \E pid \in 0..(RbMaxProducers - 1) : collectFeedback(0, pid)

RbSeqNext ==
    \/ attachProducer(RbSlotsPerProducer)
    \/ attachConsumer
    \/ \E pid \in 0..(RbMaxProducers - 1) : detachProducer(pid)
    \/ \E cid \in 0..(RbMaxConsumers - 1) : detachConsumer(cid)
    \/ RbSeqProduce
    \/ RbSeqConsume
    \/ RbSeqWriteFeedback
    \/ RbSeqCollectFeedback
    \/ \E t \in RbThreads : RbStep(t)

\* An endless run without concurrency.  Between calls the run goes on with a
\* fresh count of calls and empty histories; head is kept modulo slots_count,
\* which is all produce uses of it (line 100).
RbFresh ==
    /\ rb_ops = RbLiveMaxOps
    /\ rb_accepted = << >>
    /\ rb_committed = {}
    /\ rb_delivered = << >>
    /\ rb_collected = << >>
    /\ \A p \in DOMAIN producers :
          producers[p] # Null => producers[p].head < producers[p].slots_count

RbForget ==
    /\ RbAllIdle
    /\ ~RbFresh
    /\ rb_ops' = RbLiveMaxOps
    /\ rb_accepted' = << >>
    /\ rb_committed' = {}
    /\ rb_delivered' = << >>
    /\ rb_collected' = << >>
    /\ producers' = [p \in DOMAIN producers |->
            IF producers[p] = Null THEN Null
            ELSE [producers[p] EXCEPT !.head = @ % producers[p].slots_count]]
    /\ UNCHANGED <<consumers, rb_pc, rb_loc, rb_out>>
    /\ RingOnly

RbLiveProduce == RbFresh /\ RbSeqProduce
RbLiveConsume(cid) == RbFresh /\ RbAllIdle /\ consume(1, cid)
RbLiveWriteFeedback == RbFresh /\ RbSeqWriteFeedback
RbLiveCollectFeedback == RbFresh /\ RbSeqCollectFeedback

RbLiveNext ==
    \/ attachProducer(RbSlotsPerProducer)
    \/ attachConsumer
    \/ RbLiveProduce
    \/ \E cid \in 0..(RbMaxConsumers - 1) : RbLiveConsume(cid)
    \/ RbLiveWriteFeedback
    \/ RbLiveCollectFeedback
    \/ \E t \in RbThreads : RbStep(t)
    \/ RbForget

\* Every call that was started runs on; the consumer keeps calling consume for
\* each consumer id and writeFeedback for what it consumed; the run goes on.
RbLiveFair ==
    /\ \A t \in RbThreads : WF_vars(RbStep(t))
    /\ \A cid \in 0..(RbMaxConsumers - 1) : SF_vars(RbLiveConsume(cid))
    /\ SF_vars(RbLiveWriteFeedback)
    /\ WF_vars(RbForget)

(***************************************************************************)
(* Part 2: umsbb_complete_core, constants and pure helpers                 *)
(***************************************************************************)

UMSBB_MAX_MESSAGE_SIZE == 65536
UMSBB_SEGMENT_COUNT == 8
UMSBB_MAX_BUFFERS == 256
UMSBB_ALIGNMENT == 64
UMSBB_MAGIC_NUMBER == 1431130946
\* sizeof(umsbb_message_header_t)
UMSBB_HEADER_SIZE == 64
\* bytes per MB in umsbb_create_buffer
BYTES_PER_MB == 1048576

\* umsbb_error_t
UMSBB_SUCCESS == 0
UMSBB_ERROR_INVALID_PARAMS == -1
UMSBB_ERROR_BUFFER_FULL == -2
UMSBB_ERROR_BUFFER_EMPTY == -3
UMSBB_ERROR_INVALID_HANDLE == -4
UMSBB_ERROR_CORRUPTED_DATA == -6
UMSBB_ERROR_INVALID_SIZE == -8

\* Bounds of the core model
CoreMaxThreads == 2
\* calls a single-threaded run may start, per kind
SeqMaxCreates == 2
SeqMaxDestroys == 1
SeqMaxInits == 1
SeqMaxWrites == 1
SeqMaxReads == 1
SeqMaxStats == 1
\* calls a single-threaded run that fills a buffer may start, per kind
FillMaxCreates == 1
FillMaxWrites == 9
FillMaxReads == 1
\* calls a single-threaded run of write/read cycles may start, per kind
CycleMaxCreates == 1
CycleMaxWrites == 2
CycleMaxReads == 2
\* calls a single-threaded run may start, per kind, and the bits that may be
\* flipped in the segment memory during it
FlipMaxCreates == 1
FlipMaxWrites == 2
FlipMaxReads == 3
FlipMaxFlips == 1
\* calls a run of two threads that write and read one buffer may start, per
\* kind
RaceMaxCreates == 1
RaceMaxWrites == 2
RaceMaxReads == 2
\* umsbb_create_buffer calls a single-threaded run that only creates buffers
\* may start
ManyMaxCreates == 256
\* calls a two-threaded run may start, per kind
ConcMaxCreates == 1
ConcMaxDestroys == 1
ConcMaxWrites == 1
ConcMaxReads == 2
ConcMaxStats == 1

CoreThreads == 1..CoreMaxThreads
CoreSegments == 0..(UMSBB_SEGMENT_COUNT - 1)

\* Inputs of the calls
CoreHandles == {0, 2, 3}
CoreSizesMb == {0, 1}
CoreWriteSizes == {0, UMSBB_MAX_MESSAGE_SIZE}
CoreReadCaps == {0, UMSBB_MAX_MESSAGE_SIZE}
\* sizes of the messages and of the output buffers of write/read cycles
CycleWriteSizes == {1, UMSBB_MAX_MESSAGE_SIZE}
CycleReadCaps == {0, 1, UMSBB_MAX_MESSAGE_SIZE}
\* the handle, the message sizes and the output buffers of concurrent writers
\* and readers
RaceHandles == {2}
RaceWriteSizes == {UMSBB_MAX_MESSAGE_SIZE}
RaceReadCaps == {UMSBB_MAX_MESSAGE_SIZE}

\* The counters are unsigned; TLC's integers are 32-bit signed.  A counter is
\* held by its two's-complement reading: a negative value v stands for the
\* wrapped value 2^w + v of a w-bit counter that was decremented below zero.
UDec(x) == x - 1

\* an unsigned counter is > 0 (a wrapped value is a huge positive number)
UPositive(x) == x # 0

umsbb_align_size(size) ==
    ((size + UMSBB_ALIGNMENT - 1) \div UMSBB_ALIGNMENT) * UMSBB_ALIGNMENT

\* Payloads are byte strings of `size` bytes: zero bytes followed by the
\* bytes of `tail`.
Payload(size, tail) == [size |-> size, tail |-> tail]

RECURSIVE ChecksumFrom(_, _)
ChecksumFrom(checksum, bytes) ==
    IF bytes = << >> THEN checksum
    ELSE ChecksumFrom(checksum * 31 + Head(bytes), Tail(bytes))

\* umsbb_calculate_checksum: checksum = checksum * 31 + byte over all bytes;
\* over the leading zero bytes the checksum stays 0
umsbb_calculate_checksum(payload) == ChecksumFrom(0, payload.tail)

\* The loop of umsbb_get_next_handle: g_next_handle is incremented until the
\* value is neither 0 nor >= UMSBB_MAX_BUFFERS; from UMSBB_MAX_BUFFERS - 1 the
\* counter runs through the whole 32-bit range and wraps to 1.
umsbb_get_next_handle(next) ==
    IF next + 1 < UMSBB_MAX_BUFFERS THEN next + 1 ELSE 1

\* the loop of umsbb_get_next_handle does not end with its first value
HandleLoopSpins(next) == ~(next + 1 < UMSBB_MAX_BUFFERS)

\* g_buffers[handle], NULL when absent
GBuffer(handle) == IF handle \in DOMAIN g_buffers THEN g_buffers[handle] ELSE 0

\* umsbb_init_segment
InitSegment(segment_id, size) ==
    [read_pos |-> 0, write_pos |-> 0, message_count |-> 0, active |-> 1,
     size |-> size, segment_id |-> segment_id, data |-> << >>]

\* the umsbb_buffer_t umsbb_create_buffer builds
NewBuffer(handle, size_mb) ==
    [magic |-> UMSBB_MAGIC_NUMBER, handle |-> handle, size_mb |-> size_mb,
     total_size |-> size_mb * BYTES_PER_MB,
     segments |-> [i \in CoreSegments |->
        InitSegment(i, umsbb_align_size((size_mb * BYTES_PER_MB) \div UMSBB_SEGMENT_COUNT))],
     total_messages_written |-> 0, total_messages_read |-> 0,
     total_bytes_written |-> 0, total_bytes_read |-> 0,
     write_operations |-> 0, read_operations |-> 0,
     failed_writes |-> 0, failed_reads |-> 0,
     initialized |-> 1,
     last_write_time |-> 0, last_read_time |-> 0,
     peak_pending_messages |-> 0, current_pending_messages |-> 0,
     memory_freed |-> FALSE, freed |-> FALSE]

\* the least element of a non-empty set of integers
Least(S) == CHOOSE x \in S : \A y \in S : x <= y

\* umsbb_select_write_segment: the first active segment with the least
\* write_pos - read_pos, segment 0 when none is active
umsbb_select_write_segment(buffer) ==
    LET act == {i \in CoreSegments : buffer.segments[i].active # 0}
        pending(i) == buffer.segments[i].write_pos - buffer.segments[i].read_pos
    IN IF act = {} THEN 0
       ELSE Least({i \in act : \A j \in act : pending(i) <= pending(j)})

\* umsbb_select_read_segment: the first active segment with messages
umsbb_select_read_segment(buffer) ==
    LET cand == {i \in CoreSegments : buffer.segments[i].active # 0
                                     /\ UPositive(buffer.segments[i].message_count)}
    IN IF cand = {} THEN 0 ELSE Least(cand)

\* Segment memory is a map from the offset of each message header it holds
\* to the header and payload stored there.
Overlaps(a, alen, b, blen) == a < b + blen /\ b < a + alen

\* memcpy of a header and its payload to offset off (lines 397-400): headers
\* under the written bytes are gone, payloads under them are damaged
StoreMessage(data, off, header, payload) ==
    LET len == UMSBB_HEADER_SIZE + header.size
        kept == {o \in DOMAIN data : ~Overlaps(o, UMSBB_HEADER_SIZE, off, len)}
    IN [o \in kept \cup {off} |->
          IF o = off THEN [header |-> header, payload |-> payload, intact |-> TRUE,
                           flipped |-> FALSE]
          ELSE IF Overlaps(o + UMSBB_HEADER_SIZE, data[o].header.size, off, len)
               THEN [data[o] EXCEPT !.intact = FALSE]
               ELSE data[o]]

\* what memcpy reads where no header was stored: bytes without the magic
NoHeader == [magic |-> 0, size |-> 0, sequence |-> 0, timestamp |-> 0,
             checksum |-> 0, flags |-> 0, reserved |-> 0]

LoadHeader(data, off) == IF off \in DOMAIN data THEN data[off].header ELSE NoHeader

\* the first n bytes of a payload
PayloadPrefix(payload, n) ==
    LET zeros == payload.size - Len(payload.tail)
    IN Payload(n, IF n <= zeros THEN << >> ELSE SubSeq(payload.tail, 1, n - zeros))

\* the header.size bytes umsbb_read_message copies out from behind the header
LoadedBytes(data, off) == PayloadPrefix(data[off].payload, data[off].header.size)

\* the checksum umsbb_read_message computes over the bytes it copied out;
\* bytes that are not those of the stored payload (a damaged payload, or a
\* stored size larger than the payload) give another checksum
LoadedChecksum(data, off) ==
    IF data[off].intact /\ data[off].header.size <= data[off].payload.size
    THEN umsbb_calculate_checksum(LoadedBytes(data, off))
    ELSE data[off].header.checksum + 1

\* A bit of a value is flipped
FlipBit(x, bit) == IF (x \div 2^bit) % 2 = 0 THEN x + 2^bit ELSE x - 2^bit

\* the header fields, the bits of a field and the bits of a payload byte
\* that may be flipped
FlipFields == {"magic", "size", "sequence", "timestamp", "checksum", "flags", "reserved"}
FlipFieldBits == {0, 16}
FlipByteBits == {0, 7}
\* the payload bytes that may be flipped, counted back from the last one
FlipBytesBack == {0, 1}

\* a bit of a field of the stored header is flipped
FlipHeader(stored, field, bit) ==
    [stored EXCEPT !.header[field] = FlipBit(@, bit), !.flipped = TRUE]

\* a bit of the payload byte `back` bytes before the last one is flipped
FlipPayload(stored, back, bit) ==
    LET n == Len(stored.payload.tail)
    IN IF back < n
       THEN [stored EXCEPT !.payload.tail[n - back] = FlipBit(@, bit), !.flipped = TRUE]
       ELSE [stored EXCEPT !.payload.tail = <<FlipBit(0, bit)>> \o @, !.flipped = TRUE]

\* a > b on unsigned counters held by their two's-complement reading
UGreater(a, b) == IF (a < 0) = (b < 0) THEN a > b ELSE a < 0

CoreIdleLoc == [op |-> "none"]
CoreNoCall == [op |-> "none"]
CoreNoBudget ==
    [threads |-> 0, create |-> 0, destroy |-> 0, init |-> 0, write |-> 0, read |-> 0,
     stat |-> 0, flip |-> 0]

\* The state after program start: the registry is empty and g_next_handle is 1
CoreInit(left) ==
    /\ g_buffers = << >>
    /\ g_next_handle = 1
    /\ g_active_buffers = 0
    /\ ts_counter = 0
    /\ heap = << >>
    /\ core_pc = [t \in CoreThreads |-> "idle"]
    /\ core_loc = [t \in CoreThreads |-> CoreIdleLoc]
    /\ core_last = [t \in CoreThreads |-> CoreNoCall]
    /\ core_issued = << >>
    /\ core_destroyed = {}
    /\ core_left = left

CoreIdleInit == CoreInit(CoreNoBudget)

\* number of calls the run may still start; it numbers the payloads
CoreLeftTotal ==
    core_left.create + core_left.destroy + core_left.init + core_left.write
        + core_left.read + core_left.stat

NoFault == \A t \in CoreThreads : core_pc[t] # "fault"

CoreCanStart(t, kind) ==
    /\ NoFault
    /\ t <= core_left.threads
    /\ core_pc[t] = "idle"
    /\ core_left[kind] > 0

CoreAt(t, pc) == NoFault /\ core_pc[t] = pc

CoreStarted(kind) == core_left' = [core_left EXCEPT ![kind] = @ - 1]

CoreRegistryUnchanged == UNCHANGED <<g_buffers, g_next_handle, g_active_buffers>>
CoreHistUnchanged == UNCHANGED <<core_issued, core_destroyed>>

\* the call of thread t returns `result`
CoreReturn(t, call, result) ==
    /\ core_pc' = [core_pc EXCEPT ![t] = "idle"]
    /\ core_loc' = [core_loc EXCEPT ![t] = CoreIdleLoc]
    /\ core_last' = [core_last EXCEPT ![t] = [result |-> result] @@ call]

\* the call of thread t goes on at pc with the locals loc
CoreGoto(t, pc, loc) ==
    /\ core_pc' = [core_pc EXCEPT ![t] = pc]
    /\ core_loc' = [core_loc EXCEPT ![t] = loc]
    /\ UNCHANGED core_last

\* what is recorded of a call: its kind, its handle, and whether the handle
\* had been destroyed when the call started
CoreCall(op, handle) ==
    [op |-> op, handle |-> handle, late |-> handle \in core_destroyed]

CallOf(loc) == [op |-> loc.op, handle |-> loc.handle, late |-> loc.late]

\* what is recorded of a umsbb_write_message that succeeded: the bytes it was
\* given, and whether the buffer had no pending message when it started
WrittenOf(loc) ==
    [payload |-> loc.payload, sequence |-> loc.header.sequence,
     on_empty |-> loc.before[loc.buffer].current_pending_messages = 0] @@ CallOf(loc)

ValidHandleRange(handle) == ~(handle = 0 \/ handle >= UMSBB_MAX_BUFFERS)

\* umsbb_find_buffer, second half: the checks on the loaded pointer.  The
\* struct may have been freed by umsbb_destroy_buffer in the meantime; what
\* the loads from freed memory return is then arbitrary.
FindChecks(buffer) ==
    IF heap[buffer].freed THEN BOOLEAN
    ELSE {heap[buffer].initialized # 0 /\ heap[buffer].magic = UMSBB_MAGIC_NUMBER}

------------------------------------------------------------------------------
\* umsbb_init_system
umsbb_init_system(t) ==
    /\ CoreCanStart(t, "init")
    /\ CoreStarted("init")
    /\ g_buffers' = << >>
    /\ g_next_handle' = 1
    /\ g_active_buffers' = 0
    /\ CoreReturn(t, CoreCall("init", 0), UMSBB_SUCCESS)
    /\ UNCHANGED <<heap, ts_counter>>
    /\ CoreHistUnchanged
    /\ CoreOnly

\* umsbb_create_buffer; the result is the handle, 0 on failure
umsbb_create_buffer(t, size_mb) ==
    /\ CoreCanStart(t, "create")
    /\ CoreStarted("create")
    /\ IF size_mb < 1 \/ size_mb > 64
       THEN /\ CoreReturn(t, CoreCall("create", 0), 0)
            /\ UNCHANGED <<heap, core_issued>>
            /\ CoreRegistryUnchanged
       ELSE LET handle == umsbb_get_next_handle(g_next_handle)
                buffer == Len(heap) + 1
            IN /\ g_next_handle' = handle
               /\ heap' = Append(heap, NewBuffer(handle, size_mb))
               /\ g_buffers' = (handle :> buffer) @@ g_buffers
               /\ g_active_buffers' = g_active_buffers + 1
               /\ core_issued' = Append(core_issued, handle)
               /\ CoreReturn(t, [spun |-> HandleLoopSpins(g_next_handle)]
                                    @@ CoreCall("create", handle), handle)
    /\ UNCHANGED <<ts_counter, core_destroyed>>
    /\ CoreOnly

------------------------------------------------------------------------------
\* umsbb_write_message, up to the load of g_buffers[handle]
umsbb_write_message(t, handle, size) ==
    /\ CoreCanStart(t, "write")
    /\ CoreStarted("write")
    /\ LET call == CoreCall("write", handle) IN
       IF size = 0 \/ size > UMSBB_MAX_MESSAGE_SIZE
       THEN CoreReturn(t, call, UMSBB_ERROR_INVALID_PARAMS)
       ELSE IF ~ValidHandleRange(handle) \/ GBuffer(handle) = 0
       THEN CoreReturn(t, call, UMSBB_ERROR_INVALID_HANDLE)
       ELSE CoreGoto(t, "w_find",
                [buffer |-> GBuffer(handle), size |-> size,
                 payload |-> Payload(size, <<CoreLeftTotal>>),
                 before |-> heap] @@ call)
    /\ UNCHANGED <<heap, ts_counter>>
    /\ CoreRegistryUnchanged
    /\ CoreHistUnchanged
    /\ CoreOnly

\* umsbb_find_buffer inside umsbb_write_message: the checks on the pointer
write_find(t) ==
    /\ CoreAt(t, "w_find")
    /\ \E ok \in FindChecks(core_loc[t].buffer) :
         IF ok THEN CoreGoto(t, "w_check", core_loc[t])
         ELSE CoreReturn(t, CallOf(core_loc[t]), UMSBB_ERROR_INVALID_HANDLE)
    /\ UNCHANGED <<heap, ts_counter, core_left>>
    /\ CoreRegistryUnchanged
    /\ CoreHistUnchanged
    /\ CoreOnly

\* the total message size of umsbb_write_message and umsbb_read_message
TotalSize(size) == umsbb_align_size(UMSBB_HEADER_SIZE + size)

\* the failure branch of the space check
WriteRejectedMut(buffer) ==
    [buffer EXCEPT !.failed_writes = @ + 1, !.total_messages_written = @ + 1]

WriteRejected(buffer) == [buffer EXCEPT !.failed_writes = @ + 1]

\* segment selection and the space check
write_check(t) ==
    /\ CoreAt(t, "w_check")
    /\ LET l == core_loc[t]
           b == heap[l.buffer]
           seg == umsbb_select_write_segment(b)
           current_write == b.segments[seg].write_pos
           current_read == b.segments[seg].read_pos
       IN IF current_write + TotalSize(l.size) > current_read + b.segments[seg].size
          THEN /\ heap' = [heap EXCEPT ![l.buffer] = WriteRejected(@)]
               /\ CoreReturn(t, CallOf(l), UMSBB_ERROR_BUFFER_FULL)
          ELSE /\ CoreGoto(t, "w_seq",
                     [seg |-> seg, current_write |-> current_write,
                      current_read |-> current_read] @@ l)
               /\ UNCHANGED heap
    /\ UNCHANGED <<ts_counter, core_left>>
    /\ CoreRegistryUnchanged
    /\ CoreHistUnchanged
    /\ CoreOnly

\* ATOMIC_ADD(&buffer->total_messages_written, 1): the value after the add
NextSequenceMut(buffer) == buffer.total_messages_written
NextSequence(buffer) == buffer.total_messages_written + 1

\* the header: sequence number, timestamp, checksum
write_seq(t) ==
    /\ CoreAt(t, "w_seq")
    /\ LET l == core_loc[t]
           sequence == NextSequence(heap[l.buffer])
           header == [magic |-> UMSBB_MAGIC_NUMBER, size |-> l.size,
                      sequence |-> sequence, timestamp |-> ts_counter + 1,
                      checksum |-> umsbb_calculate_checksum(l.payload), flags |-> 0,
                      reserved |-> 0]
       IN /\ heap' = [heap EXCEPT ![l.buffer].total_messages_written = sequence]
          /\ ts_counter' = ts_counter + 1
          /\ CoreGoto(t, "w_copy", [header |-> header] @@ l)
    /\ UNCHANGED core_left
    /\ CoreRegistryUnchanged
    /\ CoreHistUnchanged
    /\ CoreOnly

\* the write offset, the wrap-around, and the two memcpy
write_copy(t) ==
    /\ CoreAt(t, "w_copy")
    /\ LET l == core_loc[t]
           segment == heap[l.buffer].segments[l.seg]
           total_size == TotalSize(l.size)
           wraps == (l.current_write % segment.size) + total_size > segment.size
           write_offset == IF wraps THEN 0 ELSE l.current_write % segment.size
           current_write == IF wraps THEN l.current_read + segment.size
                            ELSE l.current_write
       IN /\ heap' = [heap EXCEPT ![l.buffer].segments[l.seg].data =
                          StoreMessage(@, write_offset, l.header, l.payload)]
          /\ CoreGoto(t, "w_pos", [current_write |-> current_write] @@ l)
    /\ UNCHANGED <<ts_counter, core_left>>
    /\ CoreRegistryUnchanged
    /\ CoreHistUnchanged
    /\ CoreOnly

\* ATOMIC_STORE(&segment->write_pos, current_write + total_size)
write_pos(t) ==
    /\ CoreAt(t, "w_pos")
    /\ LET l == core_loc[t] IN
          /\ heap' = [heap EXCEPT ![l.buffer].segments[l.seg].write_pos =
                          l.current_write + TotalSize(l.size)]
          /\ CoreGoto(t, "w_count", l)
    /\ UNCHANGED <<ts_counter, core_left>>
    /\ CoreRegistryUnchanged
    /\ CoreHistUnchanged
    /\ CoreOnly

\* message_count, total_bytes_written, write_operations, last_write_time
write_count(t) ==
    /\ CoreAt(t, "w_count")
    /\ LET l == core_loc[t] IN
          /\ heap' = [heap EXCEPT ![l.buffer] =
                [@ EXCEPT !.segments[l.seg].message_count = @ + 1,
                          !.total_bytes_written = @ + l.size,
                          !.write_operations = @ + 1,
                          !.last_write_time = l.header.timestamp]]
          /\ CoreGoto(t, "w_pending", l)
    /\ UNCHANGED <<ts_counter, core_left>>
    /\ CoreRegistryUnchanged
    /\ CoreHistUnchanged
    /\ CoreOnly

\* pending = ATOMIC_ADD(&buffer->current_pending_messages, 1)
write_pending(t) ==
    /\ CoreAt(t, "w_pending")
    /\ LET l == core_loc[t]
           pending == heap[l.buffer].current_pending_messages + 1
       IN /\ heap' = [heap EXCEPT ![l.buffer].current_pending_messages = pending]
          /\ CoreGoto(t, "w_peak", [pending |-> pending] @@ l)
    /\ UNCHANGED <<ts_counter, core_left>>
    /\ CoreRegistryUnchanged
    /\ CoreHistUnchanged
    /\ CoreOnly

\* the load of peak_pending_messages and the comparison
write_peak(t) ==
    /\ CoreAt(t, "w_peak")
    /\ LET l == core_loc[t] IN
          IF UGreater(l.pending, heap[l.buffer].peak_pending_messages)
          THEN CoreGoto(t, "w_peak_store", l)
          ELSE CoreReturn(t, WrittenOf(l), UMSBB_SUCCESS)
    /\ UNCHANGED <<heap, ts_counter, core_left>>
    /\ CoreRegistryUnchanged
    /\ CoreHistUnchanged
    /\ CoreOnly

\* ATOMIC_STORE(&buffer->peak_pending_messages, pending)
write_peak_store(t) ==
    /\ CoreAt(t, "w_peak_store")
    /\ LET l == core_loc[t] IN
          /\ heap' = [heap EXCEPT ![l.buffer].peak_pending_messages = l.pending]
          /\ CoreReturn(t, WrittenOf(l), UMSBB_SUCCESS)
    /\ UNCHANGED <<ts_counter, core_left>>
    /\ CoreRegistryUnchanged
    /\ CoreHistUnchanged
    /\ CoreOnly

------------------------------------------------------------------------------
\* the last call of thread t was a umsbb_read_message that found the caller's
\* buffer too small
ReadWasRejected(t) ==
    core_last[t].op = "read" /\ core_last[t].result = UMSBB_ERROR_INVALID_SIZE

\* umsbb_read_message, up to the load of g_buffers[handle]
umsbb_read_message(t, handle, buffer_size) ==
    /\ CoreCanStart(t, "read")
    /\ CoreStarted("read")
    /\ LET call == CoreCall("read", handle) IN
       IF buffer_size = 0
       THEN CoreReturn(t, call, UMSBB_ERROR_INVALID_PARAMS)
       ELSE IF ~ValidHandleRange(handle) \/ GBuffer(handle) = 0
       THEN CoreReturn(t, call, UMSBB_ERROR_INVALID_HANDLE)
       ELSE CoreGoto(t, "r_find",
                [buffer |-> GBuffer(handle), buffer_size |-> buffer_size,
                 before |-> heap, retried |-> ReadWasRejected(t)] @@ call)
    /\ UNCHANGED <<heap, ts_counter>>
    /\ CoreRegistryUnchanged
    /\ CoreHistUnchanged
    /\ CoreOnly

read_find(t) ==
    /\ CoreAt(t, "r_find")
    /\ \E ok \in FindChecks(core_loc[t].buffer) :
         IF ok THEN CoreGoto(t, "r_check", core_loc[t])
         ELSE CoreReturn(t, CallOf(core_loc[t]), UMSBB_ERROR_INVALID_HANDLE)
    /\ UNCHANGED <<heap, ts_counter, core_left>>
    /\ CoreRegistryUnchanged
    /\ CoreHistUnchanged
    /\ CoreOnly

\* segment selection and the two emptiness checks
read_check(t) ==
    /\ CoreAt(t, "r_check")
    /\ LET l == core_loc[t]
           b == heap[l.buffer]
           seg == umsbb_select_read_segment(b)
           current_read == b.segments[seg].read_pos
           current_write == b.segments[seg].write_pos
       IN IF b.segments[seg].message_count = 0 \/ current_read >= current_write
          THEN CoreReturn(t, CallOf(l), UMSBB_ERROR_BUFFER_EMPTY)
          ELSE CoreGoto(t, "r_copy", [seg |-> seg, current_read |-> current_read] @@ l)
    /\ UNCHANGED <<heap, ts_counter, core_left>>
    /\ CoreRegistryUnchanged
    /\ CoreHistUnchanged
    /\ CoreOnly

\* the buffer after a read that found the caller's buffer too small
ReadRejectedMut(buffer) ==
    [buffer EXCEPT !.failed_reads = @ + 1]
ReadRejected(buffer) == buffer

\* the memcpy of the header and of the data, and their validation
read_copy(t) ==
    /\ CoreAt(t, "r_copy")
    /\ LET l == core_loc[t]
           segment == heap[l.buffer].segments[l.seg]
           read_offset == l.current_read % segment.size
           header == LoadHeader(segment.data, read_offset)
       IN IF header.magic # UMSBB_MAGIC_NUMBER
          THEN /\ heap' = [heap EXCEPT ![l.buffer].failed_reads = @ + 1]
               /\ CoreReturn(t, CallOf(l), UMSBB_ERROR_CORRUPTED_DATA)
          ELSE IF header.size > l.buffer_size
          THEN /\ heap' = [heap EXCEPT ![l.buffer] = ReadRejected(@)]
               /\ CoreReturn(t, [next |-> segment.data[read_offset]] @@ CallOf(l),
                             UMSBB_ERROR_INVALID_SIZE)
          ELSE IF LoadedChecksum(segment.data, read_offset) # header.checksum
          THEN /\ heap' = [heap EXCEPT ![l.buffer].failed_reads = @ + 1]
               /\ CoreReturn(t, CallOf(l), UMSBB_ERROR_CORRUPTED_DATA)
          ELSE /\ UNCHANGED heap
               /\ CoreGoto(t, "r_pos",
                     [header |-> header, out |-> LoadedBytes(segment.data, read_offset)] @@ l)
    /\ UNCHANGED <<ts_counter, core_left>>
    /\ CoreRegistryUnchanged
    /\ CoreHistUnchanged
    /\ CoreOnly

\* ATOMIC_STORE(&segment->read_pos, current_read + total_size)
read_pos(t) ==
    /\ CoreAt(t, "r_pos")
    /\ LET l == core_loc[t] IN
          /\ heap' = [heap EXCEPT ![l.buffer].segments[l.seg].read_pos =
                          l.current_read + TotalSize(l.header.size)]
          /\ CoreGoto(t, "r_count", l)
    /\ UNCHANGED <<ts_counter, core_left>>
    /\ CoreRegistryUnchanged
    /\ CoreHistUnchanged
    /\ CoreOnly

\* message_count, total_messages_read, total_bytes_read, read_operations,
\* last_read_time
read_count(t) ==
    /\ CoreAt(t, "r_count")
    /\ LET l == core_loc[t] IN
          /\ heap' = [heap EXCEPT ![l.buffer] =
                [@ EXCEPT !.segments[l.seg].message_count = UDec(@),
                          !.total_messages_read = @ + 1,
                          !.total_bytes_read = @ + l.header.size,
                          !.read_operations = @ + 1,
                          !.last_read_time = ts_counter + 1]]
          /\ ts_counter' = ts_counter + 1
          /\ CoreGoto(t, "r_pending", l)
    /\ UNCHANGED core_left
    /\ CoreRegistryUnchanged
    /\ CoreHistUnchanged
    /\ CoreOnly

\* ATOMIC_SUB(&buffer->current_pending_messages, 1) and the return
read_pending(t) ==
    /\ CoreAt(t, "r_pending")
    /\ LET l == core_loc[t] IN
          /\ heap' = [heap EXCEPT ![l.buffer].current_pending_messages = UDec(@)]
          /\ CoreReturn(t, [out |-> l.out, sequence |-> l.header.sequence,
                            retried |-> l.retried] @@ CallOf(l),
                        UMSBB_SUCCESS)
    /\ UNCHANGED <<ts_counter, core_left>>
    /\ CoreRegistryUnchanged
    /\ CoreHistUnchanged
    /\ CoreOnly

------------------------------------------------------------------------------
\* umsbb_get_total_messages, up to the load of g_buffers[handle]
umsbb_get_total_messages(t, handle) ==
    /\ CoreCanStart(t, "stat")
    /\ CoreStarted("stat")
    /\ LET call == CoreCall("stat", handle) IN
       IF ~ValidHandleRange(handle) \/ GBuffer(handle) = 0
       THEN CoreReturn(t, call, 0)
       ELSE CoreGoto(t, "s_find", [buffer |-> GBuffer(handle)] @@ call)
    /\ UNCHANGED <<heap, ts_counter>>
    /\ CoreRegistryUnchanged
    /\ CoreHistUnchanged
    /\ CoreOnly

stat_find(t) ==
    /\ CoreAt(t, "s_find")
    /\ \E ok \in FindChecks(core_loc[t].buffer) :
         IF ok THEN CoreGoto(t, "s_load", core_loc[t])
         ELSE CoreReturn(t, CallOf(core_loc[t]), 0)
    /\ UNCHANGED <<heap, ts_counter, core_left>>
    /\ CoreRegistryUnchanged
    /\ CoreHistUnchanged
    /\ CoreOnly

\* ATOMIC_LOAD(&buffer->total_messages_written)
stat_load(t) ==
    /\ CoreAt(t, "s_load")
    /\ CoreReturn(t, CallOf(core_loc[t]), heap[core_loc[t].buffer].total_messages_written)
    /\ UNCHANGED <<heap, ts_counter, core_left>>
    /\ CoreRegistryUnchanged
    /\ CoreHistUnchanged
    /\ CoreOnly

------------------------------------------------------------------------------
\* umsbb_destroy_buffer, up to the load of g_buffers[handle]
umsbb_destroy_buffer(t, handle) ==
    /\ CoreCanStart(t, "destroy")
    /\ CoreStarted("destroy")
    /\ LET call == CoreCall("destroy", handle) IN
       IF ~ValidHandleRange(handle) \/ GBuffer(handle) = 0
       THEN CoreReturn(t, call, UMSBB_ERROR_INVALID_HANDLE)
       ELSE CoreGoto(t, "d_mark", [buffer |-> GBuffer(handle)] @@ call)
    /\ UNCHANGED <<heap, ts_counter>>
    /\ CoreRegistryUnchanged
    /\ CoreHistUnchanged
    /\ CoreOnly

\* initialized = 0 and every segment inactive
destroy_mark(t) ==
    /\ CoreAt(t, "d_mark")
    /\ LET l == core_loc[t] IN
          /\ heap' = [heap EXCEPT ![l.buffer] =
                [@ EXCEPT !.initialized = 0,
                          !.segments = [i \in CoreSegments |-> [@[i] EXCEPT !.active = 0]]]]
          /\ CoreGoto(t, "d_free_memory", l)
    /\ UNCHANGED <<ts_counter, core_left>>
    /\ CoreRegistryUnchanged
    /\ CoreHistUnchanged
    /\ CoreOnly

\* free(buffer->buffer_memory)
destroy_free_memory(t) ==
    /\ CoreAt(t, "d_free_memory")
    /\ LET l == core_loc[t] IN
          /\ heap' = [heap EXCEPT ![l.buffer].memory_freed = TRUE]
          /\ CoreGoto(t, "d_unregister", l)
    /\ UNCHANGED <<ts_counter, core_left>>
    /\ CoreRegistryUnchanged
    /\ CoreHistUnchanged
    /\ CoreOnly

\* g_buffers[handle] = NULL and g_active_buffers - 1
destroy_unregister(t) ==
    /\ CoreAt(t, "d_unregister")
    /\ LET l == core_loc[t] IN
          /\ g_buffers' = [h \in DOMAIN g_buffers \ {l.handle} |-> g_buffers[h]]
          /\ g_active_buffers' = UDec(g_active_buffers)
          /\ CoreGoto(t, "d_free", l)
    /\ UNCHANGED <<heap, ts_counter, core_left, g_next_handle>>
    /\ CoreHistUnchanged
    /\ CoreOnly

\* free(buffer) and the return
destroy_free(t) ==
    /\ CoreAt(t, "d_free")
    /\ LET l == core_loc[t] IN
          /\ heap' = [heap EXCEPT ![l.buffer].freed = TRUE]
          /\ core_destroyed' = core_destroyed \cup {l.handle}
          /\ CoreReturn(t, CallOf(l), UMSBB_SUCCESS)
    /\ UNCHANGED <<ts_counter, core_left, core_issued>>
    /\ CoreRegistryUnchanged
    /\ CoreOnly

------------------------------------------------------------------------------
\* Thread t is inside a call and its next step dereferences the buffer
\* struct, or the segment memory, after free
UsesFreed(t) ==
    /\ core_pc[t] \notin {"idle", "fault"}
    /\ \/ heap[core_loc[t].buffer].freed
       \/ core_pc[t] \in {"w_copy", "r_copy"} /\ heap[core_loc[t].buffer].memory_freed

\* An access to freed memory may also end the process
core_fault(t) ==
    /\ NoFault
    /\ UsesFreed(t)
    /\ core_pc' = [core_pc EXCEPT ![t] = "fault"]
    /\ UNCHANGED <<heap, ts_counter, core_left, core_loc, core_last>>
    /\ CoreRegistryUnchanged
    /\ CoreHistUnchanged
    /\ CoreOnly

\* Between two calls a bit of the segment memory changes: a bit of the header
\* or of the payload of the message the next read of a segment reaches
flip_bit(buffer, seg) ==
    /\ NoFault
    /\ \A t \in CoreThreads : core_pc[t] = "idle"
    /\ core_left.flip > 0
    /\ buffer \in DOMAIN heap
    /\ ~heap[buffer].freed /\ ~heap[buffer].memory_freed
    /\ LET segment == heap[buffer].segments[seg]
           off == segment.read_pos % segment.size
       IN /\ UPositive(segment.message_count)
          /\ off \in DOMAIN segment.data
          /\ segment.data[off].intact
          /\ \E stored \in
                {FlipHeader(segment.data[off], field, bit) :
                    field \in FlipFields, bit \in FlipFieldBits}
                \cup {FlipPayload(segment.data[off], back, bit) :
                    back \in {k \in FlipBytesBack : k < segment.data[off].payload.size},
                    bit \in FlipByteBits} :
                heap' = [heap EXCEPT ![buffer].segments[seg].data[off] = stored]
    /\ core_left' = [core_left EXCEPT !.flip = @ - 1]
    /\ UNCHANGED <<ts_counter, core_pc, core_loc, core_last>>
    /\ CoreRegistryUnchanged
    /\ CoreHistUnchanged
    /\ CoreOnly

CoreWriteStep(t) ==
    \/ write_find(t) \/ write_check(t) \/ write_seq(t) \/ write_copy(t)
    \/ write_pos(t) \/ write_count(t) \/ write_pending(t) \/ write_peak(t)
    \/ write_peak_store(t)

CoreReadStep(t) ==
    \/ read_find(t) \/ read_check(t) \/ read_copy(t) \/ read_pos(t)
    \/ read_count(t) \/ read_pending(t)

CoreStep(t) ==
    \/ CoreWriteStep(t)
    \/ CoreReadStep(t)
    \/ stat_find(t) \/ stat_load(t)
    \/ destroy_mark(t) \/ destroy_free_memory(t) \/ destroy_unregister(t)
    \/ destroy_free(t)

CoreCreates(t) == \E size_mb \in CoreSizesMb : umsbb_create_buffer(t, size_mb)
CoreWrites(t) ==
    \E h \in CoreHandles, size \in CoreWriteSizes : umsbb_write_message(t, h, size)
CoreReads(t) ==
    \E h \in CoreHandles, cap \in CoreReadCaps : umsbb_read_message(t, h, cap)

CoreCalls(t) ==
    \/ CoreCreates(t)
    \/ CoreWrites(t)
    \/ CoreReads(t)
    \/ \E h \in CoreHandles : umsbb_get_total_messages(t, h)
    \/ \E h \in CoreHandles : umsbb_destroy_buffer(t, h)

\* one thread makes calls of every kind, one after the other
CoreSeqNext == CoreCalls(1) \/ umsbb_init_system(1) \/ CoreStep(1)

\* one thread creates buffers, writes and reads
CoreFillNext ==
    CoreCreates(1) \/ CoreWrites(1) \/ CoreReads(1) \/ CoreWriteStep(1) \/ CoreReadStep(1)

\* one thread writes messages of mixed sizes and reads them back
CoreCycleWrites(t) ==
    \E h \in CoreHandles, size \in CycleWriteSizes : umsbb_write_message(t, h, size)
CoreCycleReads(t) ==
    \E h \in CoreHandles, cap \in CycleReadCaps : umsbb_read_message(t, h, cap)

CoreCycleNext ==
    \/ CoreCreates(1) \/ CoreCycleWrites(1) \/ CoreCycleReads(1)
    \/ CoreWriteStep(1) \/ CoreReadStep(1)

\* one thread writes and reads, and bits of the segment memory flip between
\* its calls
CoreFlips == \E buffer \in DOMAIN heap, seg \in CoreSegments : flip_bit(buffer, seg)

CoreFlipNext ==
    \/ CoreCreates(1) \/ CoreCycleWrites(1) \/ CoreCycleReads(1) \/ CoreFlips
    \/ CoreWriteStep(1) \/ CoreReadStep(1)

\* one thread creates buffers and does nothing else
CoreManyNext == CoreCreates(1)

\* the threads of the run write to and read from a buffer concurrently
CoreRaceWrites(t) ==
    \E h \in RaceHandles, size \in RaceWriteSizes : umsbb_write_message(t, h, size)
CoreRaceReads(t) ==
    \E h \in RaceHandles, cap \in RaceReadCaps : umsbb_read_message(t, h, cap)

CoreRaceNext ==
    \/ CoreCreates(1)
    \/ \E t \in CoreThreads :
          \/ CoreRaceWrites(t) \/ CoreRaceReads(t)
          \/ CoreWriteStep(t) \/ CoreReadStep(t)

\* the threads of the run make calls concurrently
CoreConcNext == \E t \in CoreThreads : CoreCalls(t) \/ CoreStep(t) \/ core_fault(t)

CoreSeqBudget ==
    [threads |-> 1, create |-> SeqMaxCreates, destroy |-> SeqMaxDestroys,
     init |-> SeqMaxInits, write |-> SeqMaxWrites, read |-> SeqMaxReads,
     stat |-> SeqMaxStats, flip |-> 0]

CoreFillBudget ==
    [threads |-> 1, create |-> FillMaxCreates, destroy |-> 0, init |-> 0,
     write |-> FillMaxWrites, read |-> FillMaxReads, stat |-> 0, flip |-> 0]

CoreCycleBudget ==
    [threads |-> 1, create |-> CycleMaxCreates, destroy |-> 0, init |-> 0,
     write |-> CycleMaxWrites, read |-> CycleMaxReads, stat |-> 0, flip |-> 0]

CoreConcBudget ==
    [threads |-> CoreMaxThreads, create |-> ConcMaxCreates, destroy |-> ConcMaxDestroys,
     init |-> 0, write |-> ConcMaxWrites, read |-> ConcMaxReads, stat |-> ConcMaxStats,
     flip |-> 0]

CoreRaceBudget ==
    [threads |-> CoreMaxThreads, create |-> RaceMaxCreates, destroy |-> 0, init |-> 0,
     write |-> RaceMaxWrites, read |-> RaceMaxReads, stat |-> 0, flip |-> 0]

CoreManyBudget ==
    [threads |-> 1, create |-> ManyMaxCreates, destroy |-> 0, init |-> 0,
     write |-> 0, read |-> 0, stat |-> 0, flip |-> 0]

CoreFlipBudget ==
    [threads |-> 1, create |-> FlipMaxCreates, destroy |-> 0, init |-> 0,
     write |-> FlipMaxWrites, read |-> FlipMaxReads, stat |-> 0,
     flip |-> FlipMaxFlips]

(***************************************************************************)
(* Part 3: the lane bus.  The calls of one thread, each as one step.       *)
(* Timestamps (time(NULL)) and the notes of feedback entries are left out. *)
(***************************************************************************)

\* sizeof(MessageCapsule) on an LP64 build
SIZEOF_CAPSULE == 48
MAX_AGENTS == 16
\* the length of FeedbackStream.entries
FEEDBACK_ENTRIES == 128
\* the lane count umsbb_init and somakernel_init use by default
DEFAULT_SEGMENTS == 4
\* 0xDEADBEEF, read as a 32-bit two's-complement number
END_MARKER == -559038737
\* try_gpu_execute hands only larger buffers to the GPU
GPU_MIN_BYTES == 1048576

\* MessageState
MSG_STATE_FREE == 0
MSG_STATE_READY == 1
MSG_STATE_CONSUMING == 2
MSG_STATE_FEEDBACK == 3

\* Bounds of the lane model: the capsules a lane's capacity holds, and the
\* calls a run may start
LaneCapsules == 5
LaneMaxSubmits == 6
LaneMaxDrains == 1
RoundMaxSubmits == 3
FifoMaxSubmits == 3
LongMaxSubmits == 1
LongMaxDrains == 129
ConcLaneMaxSubmits == 3
ConcLaneMaxDrains == 2
FifoMaxDrains == 3
RoundMaxDrains == 4

\* Inputs of the init and of the calls
LaneCapacities == {LaneCapsules * SIZEOF_CAPSULE, LaneCapsules * SIZEOF_CAPSULE + 10}
LaneSegmentCounts == {0, 1}
LaneIndexes == {0, 1, MAX_AGENTS}

\* the null pointer, as an offset
NULL == -1

\* bi_buffer_init; regionC holds MSG_STATE_FREE wherever nothing else was set
bi_buffer_init(cap) ==
    [capacity |-> cap, writeIndex |-> 0, readIndex |-> 0, commitIndex |-> 0,
     feedbackIndex |-> 0, regionA |-> << >>, regionC |-> << >>]

bi_buffer_get_message_state(buf, offset) ==
    LET stateIndex == offset \div SIZEOF_CAPSULE
    IN IF stateIndex >= buf.capacity \div 4 THEN MSG_STATE_FREE
       ELSE IF stateIndex \in DOMAIN buf.regionC THEN buf.regionC[stateIndex]
       ELSE MSG_STATE_FREE

bi_buffer_set_message_state(buf, offset, state) ==
    LET stateIndex == offset \div SIZEOF_CAPSULE
    IN IF stateIndex < buf.capacity \div 4
       THEN [buf EXCEPT !.regionC = (stateIndex :> state) @@ @]
       ELSE buf

\* bi_buffer_claim: the offset claimed in regionA, NULL when there is no room
bi_buffer_claim_ptr(buf, size) ==
    IF \/ buf.writeIndex + size > buf.capacity
       \/ buf.writeIndex >= buf.readIndex /\ buf.writeIndex + size > buf.capacity
       \/ buf.writeIndex < buf.readIndex /\ buf.writeIndex + size > buf.readIndex
    THEN NULL
    ELSE buf.writeIndex

\* bi_buffer_claim: the buffer after a claim that found room
bi_buffer_claim(buf, size) ==
    bi_buffer_set_message_state(buf, buf.writeIndex, MSG_STATE_READY)

bi_buffer_commit(buf, size) ==
    bi_buffer_set_message_state(
        [buf EXCEPT !.writeIndex = @ + size, !.commitIndex = buf.writeIndex + size],
        buf.writeIndex, MSG_STATE_CONSUMING)

\* bi_buffer_read: the offset of the next message, NULL when there is none
bi_buffer_read(buf) ==
    IF buf.readIndex >= buf.commitIndex THEN NULL
    ELSE IF bi_buffer_get_message_state(buf, buf.readIndex) # MSG_STATE_CONSUMING THEN NULL
    ELSE IF buf.commitIndex - buf.readIndex < SIZEOF_CAPSULE THEN NULL
    ELSE buf.readIndex

bi_buffer_advance_feedback(buf) ==
    [bi_buffer_set_message_state(buf, buf.readIndex, MSG_STATE_FEEDBACK)
        EXCEPT !.feedbackIndex = buf.readIndex + SIZEOF_CAPSULE]

bi_buffer_release(buf) ==
    LET marked == bi_buffer_set_message_state(buf, buf.readIndex, MSG_STATE_FEEDBACK)
        moved == [marked EXCEPT !.readIndex = buf.readIndex + SIZEOF_CAPSULE]
    IN bi_buffer_set_message_state(bi_buffer_advance_feedback(moved), buf.readIndex,
                                   MSG_STATE_FREE)

\* flow_control_init(&bus->flow, bufCap * 0.8): the product, cut to a size_t
FlowThreshold(bufCap) == (bufCap * 4) \div 5

flow_should_throttle(buf, threshold) ==
    LET used == IF buf.writeIndex >= buf.readIndex THEN buf.writeIndex - buf.readIndex
                ELSE 0
    IN used > threshold

segment_ring_init(agentCount, bufferCap) ==
    LET n == IF agentCount > MAX_AGENTS THEN MAX_AGENTS ELSE agentCount
    IN [activeCount |-> n, currentIndex |-> 0,
        buffers |-> [i \in 0..(n - 1) |-> bi_buffer_init(bufferCap)]]

batch_init(min, max, step) == [min |-> min, max |-> max, step |-> step, current |-> min]

batch_next(batch, feedbackScore) ==
    IF feedbackScore > 80 /\ batch.current + batch.step <= batch.max
    THEN [batch EXCEPT !.current = @ + batch.step]
    ELSE IF feedbackScore < 30 /\ batch.current > batch.min + batch.step
    THEN [batch EXCEPT !.current = @ - batch.step]
    ELSE batch

feedback_push(stream, entry) ==
    IF Len(stream) < FEEDBACK_ENTRIES THEN Append(stream, entry) ELSE stream

FeedbackEntry(sequence, type) == [sequence |-> sequence, type |-> type]

\* try_gpu_execute: no GPU without gpu_available(), none for small buffers
try_gpu_execute(gpu, size) == gpu /\ size > GPU_MIN_BYTES

RECURSIVE SumBytes(_)
SumBytes(bytes) == IF bytes = << >> THEN 0 ELSE Head(bytes) + SumBytes(Tail(bytes))

capsule_checksum(bytes) == SumBytes(bytes)

\* capsule_wrap: the capsule keeps the caller's pointer, not a copy
capsule_wrap(seq, msg, bytes) ==
    [header |-> [sequence |-> seq, checksum |-> capsule_checksum(bytes)],
     payload |-> msg, size |-> Len(bytes),
     footer |-> [endMarker |-> END_MARKER, checksum |-> capsule_checksum(bytes)]]

\* umsbb_init, on a build without a GPU backend
umsbb_init(bufCap, segmentCount) ==
    LET n == IF segmentCount = 0 THEN DEFAULT_SEGMENTS ELSE segmentCount
    IN [kind |-> "umsbb",
        ring |-> segment_ring_init(n, bufCap),
        arena |-> [capacity |-> bufCap * n, offset |-> 0],
        feedback |-> << >>,
        batch |-> batch_init(1, 8, 1),
        flow |-> [threshold |-> FlowThreshold(bufCap)],
        scheduler |-> [signal |-> FALSE],
        sequence |-> 0, segment_count |-> n, gpu_enabled |-> FALSE,
        total_operations |-> 0]

somakernel_init(bufCap, arenaCap) ==
    [kind |-> "somakernel",
     ring |-> segment_ring_init(DEFAULT_SEGMENTS, bufCap),
     arena |-> [capacity |-> arenaCap, offset |-> 0],
     feedback |-> << >>,
     batch |-> batch_init(1, 8, 1),
     flow |-> [threshold |-> FlowThreshold(bufCap)],
     scheduler |-> [signal |-> FALSE],
     sequence |-> 0]

NoBus == [kind |-> "none"]
LaneNoCall == [op |-> "none", result |-> "none"]
LaneNoBudget == [submit |-> 0, drain |-> 0]
LaneBudget == [submit |-> LaneMaxSubmits, drain |-> LaneMaxDrains]
LaneLongBudget == [submit |-> LongMaxSubmits, drain |-> LongMaxDrains]
LaneFifoBudget == [submit |-> FifoMaxSubmits, drain |-> FifoMaxDrains]
LaneRoundBudget == [submit |-> RoundMaxSubmits, drain |-> RoundMaxDrains]
LaneFifoLanes == {0, 1}
LaneNoCalls == [submit |-> "idle", drain |-> "idle"]
LaneConcBudget == [submit |-> ConcLaneMaxSubmits, drain |-> ConcLaneMaxDrains]
LaneNoWaits(b) == [lane \in 0..(b.ring.activeCount - 1) |-> 0]

\* no bus was made
LaneIdleInit ==
    /\ bus = NoBus
    /\ lane_mem = << >>
    /\ lane_last = LaneNoCall
    /\ lane_left = LaneNoBudget
    /\ lane_pc = LaneNoCalls
    /\ lane_waits = << >>

\* the state after umsbb_init or somakernel_init
LaneInit ==
    /\ \E bufCap \in LaneCapacities :
          \/ \E segmentCount \in LaneSegmentCounts : bus = umsbb_init(bufCap, segmentCount)
          \/ \E lanes \in {1, DEFAULT_SEGMENTS} :
                bus = somakernel_init(bufCap, bufCap * lanes)
    /\ lane_mem = << >>
    /\ lane_last = LaneNoCall
    /\ lane_left = LaneBudget
    /\ lane_pc = LaneNoCalls
    /\ lane_waits = LaneNoWaits(bus)

\* the state after umsbb_init or somakernel_init, for a run of submit_to and
\* drain_from calls
LaneFifoInit ==
    /\ \E bufCap \in LaneCapacities :
          \/ \E segmentCount \in LaneSegmentCounts : bus = umsbb_init(bufCap, segmentCount)
          \/ \E lanes \in {1, DEFAULT_SEGMENTS} :
                bus = somakernel_init(bufCap, bufCap * lanes)
    /\ lane_mem = << >>
    /\ lane_last = LaneNoCall
    /\ lane_left = LaneFifoBudget
    /\ lane_pc = LaneNoCalls
    /\ lane_waits = LaneNoWaits(bus)

\* the state after umsbb_init, for a run of more calls than the feedback
\* stream has entries
LaneLongInit ==
    /\ \E bufCap \in LaneCapacities :
          \E segmentCount \in LaneSegmentCounts : bus = umsbb_init(bufCap, segmentCount)
    /\ lane_mem = << >>
    /\ lane_last = LaneNoCall
    /\ lane_left = LaneLongBudget
    /\ lane_pc = LaneNoCalls
    /\ lane_waits = LaneNoWaits(bus)

\* the state after somakernel_init, for one thread that submits and one that
\* drains
LaneConcInit ==
    /\ \E bufCap \in LaneCapacities :
          \E lanes \in {1, DEFAULT_SEGMENTS} :
                bus = somakernel_init(bufCap, bufCap * lanes)
    /\ lane_mem = << >>
    /\ lane_last = LaneNoCall
    /\ lane_left = LaneConcBudget
    /\ lane_pc = LaneNoCalls
    /\ lane_waits = LaneNoWaits(bus)

\* the state after somakernel_init, for a run of somakernel_submit and
\* somakernel_drain calls
LaneRoundInit ==
    /\ \E bufCap \in LaneCapacities :
          \E lanes \in {1, DEFAULT_SEGMENTS} :
                bus = somakernel_init(bufCap, bufCap * lanes)
    /\ lane_mem = << >>
    /\ lane_last = LaneNoCall
    /\ lane_left = LaneRoundBudget
    /\ lane_pc = LaneNoCalls
    /\ lane_waits = LaneNoWaits(bus)

LaneCanStart(kind, what) ==
    /\ bus.kind = kind
    /\ lane_last.result # "fault"
    /\ lane_left[what] > 0

\* the caller's buffer of the next submission, and its bytes
NextMsg == Len(lane_mem) + 1
NextBytes == <<NextMsg>>

\* writeIndex - readIndex of a lane
InFlight(buf) == buf.writeIndex - buf.readIndex

\* what is recorded of a call on lane laneIndex
LaneCall(op, laneIndex) ==
    [op |-> op, lane |-> laneIndex,
     in_flight |-> IF laneIndex < bus.ring.activeCount
                   THEN InFlight(bus.ring.buffers[laneIndex]) ELSE 0,
     capacity |-> IF laneIndex < bus.ring.activeCount
                  THEN bus.ring.buffers[laneIndex].capacity ELSE 0]

\* the body of umsbb_submit_to: the bus after the call, and the result
UmsbbSubmitTo(b, laneIndex, msg, bytes) ==
    IF laneIndex >= b.ring.activeCount THEN [bus |-> b, result |-> "invalid"]
    ELSE LET target == b.ring.buffers[laneIndex] IN
    IF flow_should_throttle(target, b.flow.threshold)
    THEN [bus |-> [b EXCEPT !.feedback =
                      feedback_push(@, FeedbackEntry(b.sequence, "THROTTLED"))],
          result |-> "throttled"]
    ELSE IF b.gpu_enabled /\ Len(bytes) > GPU_MIN_BYTES
            /\ try_gpu_execute(b.gpu_enabled, Len(bytes))
    THEN [bus |-> [b EXCEPT !.total_operations = @ + 1], result |-> "gpu"]
    ELSE LET batched == [b EXCEPT !.batch = batch_next(@, 85)] IN
    IF batched.arena.offset + SIZEOF_CAPSULE > batched.arena.capacity
    THEN [bus |-> [batched EXCEPT !.feedback =
                      feedback_push(@, FeedbackEntry(b.sequence, "SKIPPED"))],
          result |-> "skipped"]
    ELSE LET cap == capsule_wrap(b.sequence, msg, bytes)
             wrapped == [batched EXCEPT !.arena.offset = @ + SIZEOF_CAPSULE,
                                        !.sequence = @ + 1]
         IN
    IF bi_buffer_claim_ptr(target, SIZEOF_CAPSULE) # NULL
    THEN LET claimed == bi_buffer_claim(target, SIZEOF_CAPSULE)
             copied == [claimed EXCEPT !.regionA = (target.writeIndex :> cap) @@ @]
         IN [bus |-> [wrapped EXCEPT
                        !.ring.buffers[laneIndex] = bi_buffer_commit(copied, SIZEOF_CAPSULE),
                        !.scheduler.signal = TRUE,
                        !.feedback = feedback_push(@, FeedbackEntry(cap.header.sequence, "OK")),
                        !.total_operations = @ + 1],
             result |-> "accepted"]
    ELSE [bus |-> [wrapped EXCEPT !.feedback =
                      feedback_push(@, FeedbackEntry(cap.header.sequence, "SKIPPED"))],
          result |-> "skipped"]

\* the body of somakernel_submit_to; arena_alloc's result is not checked, and
\* capsule_wrap on a null pointer ends the process
SomakernelSubmitTo(b, laneIndex, msg, bytes) ==
    IF laneIndex >= b.ring.activeCount THEN [bus |-> b, result |-> "invalid"]
    ELSE LET target == b.ring.buffers[laneIndex] IN
    IF flow_should_throttle(target, b.flow.threshold)
    THEN [bus |-> [b EXCEPT !.feedback =
                      feedback_push(@, FeedbackEntry(b.sequence, "THROTTLED"))],
          result |-> "throttled"]
    ELSE IF b.arena.offset + SIZEOF_CAPSULE > b.arena.capacity
    THEN [bus |-> b, result |-> "fault"]
    ELSE LET cap == capsule_wrap(b.sequence, msg, bytes)
             wrapped == [b EXCEPT !.arena.offset = @ + SIZEOF_CAPSULE, !.sequence = @ + 1]
         IN
    IF bi_buffer_claim_ptr(target, SIZEOF_CAPSULE) # NULL
    THEN LET claimed == bi_buffer_claim(target, SIZEOF_CAPSULE)
             copied == [claimed EXCEPT !.regionA = (target.writeIndex :> cap) @@ @]
         IN [bus |-> [wrapped EXCEPT
                        !.ring.buffers[laneIndex] = bi_buffer_commit(copied, SIZEOF_CAPSULE),
                        !.scheduler.signal = TRUE],
             result |-> "accepted"]
    ELSE [bus |-> [wrapped EXCEPT !.feedback =
                      feedback_push(@, FeedbackEntry(cap.header.sequence, "SKIPPED"))],
          result |-> "skipped"]

\* a submission started: the caller's buffer exists, the budget shrinks
LaneSubmitted(call, out) ==
    /\ bus' = out.bus
    /\ lane_mem' = Append(lane_mem, NextBytes)
    /\ lane_last' = [result |-> out.result] @@ call
    /\ lane_left' = [lane_left EXCEPT !.submit = @ - 1]
    /\ UNCHANGED lane_waits

umsbb_submit_to(laneIndex) ==
    /\ LaneCanStart("umsbb", "submit")
    /\ LaneSubmitted(LaneCall("submit_to", laneIndex),
                     UmsbbSubmitTo(bus, laneIndex, NextMsg, NextBytes))
    /\ UNCHANGED lane_pc
    /\ LaneOnly

\* umsbb_submit: the lane is ring.currentIndex, which then moves on
umsbb_submit ==
    /\ LaneCanStart("umsbb", "submit")
    /\ LET lane == bus.ring.currentIndex
           out == UmsbbSubmitTo(bus, lane, NextMsg, NextBytes)
       IN LaneSubmitted(LaneCall("submit", lane),
              [out EXCEPT !.bus.ring.currentIndex = (lane + 1) % bus.ring.activeCount])
    /\ UNCHANGED lane_pc
    /\ LaneOnly

somakernel_submit_to(laneIndex) ==
    /\ LaneCanStart("somakernel", "submit")
    /\ LaneSubmitted(LaneCall("submit_to", laneIndex),
                     SomakernelSubmitTo(bus, laneIndex, NextMsg, NextBytes))
    /\ UNCHANGED lane_pc
    /\ LaneOnly

somakernel_submit ==
    /\ LaneCanStart("somakernel", "submit")
    /\ LET lane == bus.ring.currentIndex
           out == SomakernelSubmitTo(bus, lane, NextMsg, NextBytes)
       IN LaneSubmitted(LaneCall("submit", lane),
              IF out.result = "fault" THEN out
              ELSE [out EXCEPT !.bus.ring.currentIndex = (lane + 1) % bus.ring.activeCount])
    /\ UNCHANGED lane_pc
    /\ LaneOnly

\* capsule_validate, on the bytes the capsule's pointer leads to
capsule_validate(cap, mem) ==
    /\ cap.footer.endMarker = END_MARKER
    /\ capsule_checksum(SubSeq(mem[cap.payload], 1, cap.size)) = cap.footer.checksum

\* the scan at the end of a drain: is a message readable on some lane
HasMoreData(b) ==
    \E i \in 0..(b.ring.activeCount - 1) : bi_buffer_read(b.ring.buffers[i]) # NULL

ClearIfDrained(b) ==
    IF HasMoreData(b) THEN b ELSE [b EXCEPT !.scheduler.signal = FALSE]

\* the body of umsbb_drain_from: the bus after the call and the bytes returned
UmsbbDrainFrom(b, laneIndex, mem) ==
    IF laneIndex >= b.ring.activeCount
    THEN [bus |-> b, result |-> "invalid", data |-> << >>]
    ELSE LET buf == b.ring.buffers[laneIndex]
             ptr == bi_buffer_read(buf)
         IN
    IF ptr = NULL
    THEN [bus |-> [b EXCEPT !.feedback = feedback_push(@, FeedbackEntry(b.sequence, "IDLE"))],
          result |-> "idle", data |-> << >>]
    ELSE LET cap == buf.regionA[ptr] IN
    IF ~capsule_validate(cap, mem)
    THEN [bus |-> [b EXCEPT
                     !.feedback = feedback_push(@, FeedbackEntry(cap.header.sequence, "CORRUPTED")),
                     !.ring.buffers[laneIndex] = bi_buffer_release(buf)],
          result |-> "corrupted", data |-> << >>]
    ELSE LET type == IF b.gpu_enabled /\ try_gpu_execute(b.gpu_enabled, cap.size)
                     THEN "GPU_EXECUTED" ELSE "CPU_EXECUTED"
             score == IF type = "GPU_EXECUTED" THEN 95 ELSE 75
             done == [b EXCEPT
                        !.batch = batch_next(@, score),
                        !.feedback = feedback_push(@, FeedbackEntry(cap.header.sequence, type)),
                        !.ring.buffers[laneIndex] = bi_buffer_release(buf),
                        !.total_operations = @ + 1]
         IN [bus |-> ClearIfDrained(done), result |-> "drained",
             data |-> SubSeq(mem[cap.payload], 1, cap.size)]

\* the body of somakernel_drain_from
SomakernelDrainFrom(b, laneIndex, mem) ==
    IF laneIndex >= b.ring.activeCount
    THEN [bus |-> b, result |-> "invalid", data |-> << >>]
    ELSE LET buf == b.ring.buffers[laneIndex]
             ptr == bi_buffer_read(buf)
         IN
    IF ptr = NULL
    THEN [bus |-> [b EXCEPT !.feedback = feedback_push(@, FeedbackEntry(b.sequence, "IDLE"))],
          result |-> "idle", data |-> << >>]
    ELSE LET cap == buf.regionA[ptr]
             type == IF ~capsule_validate(cap, mem) THEN "CORRUPTED"
                     ELSE IF try_gpu_execute(FALSE, cap.size) THEN "GPU_EXECUTED"
                     ELSE "CPU_EXECUTED"
             done == [b EXCEPT
                        !.feedback = feedback_push(@, FeedbackEntry(cap.header.sequence, type)),
                        !.ring.buffers[laneIndex] = bi_buffer_release(buf)]
         IN [bus |-> ClearIfDrained(done),
             result |-> IF type = "CORRUPTED" THEN "corrupted" ELSE "drained",
             data |-> << >>]

\* the waits after a drain call: a lane that holds nothing, or that the call
\* visited, waits no more; a lane that holds a message and saw a
\* somakernel_drain call go elsewhere has waited once more
LaneWaits(waits, call, after) ==
    [lane \in DOMAIN waits |->
        IF InFlight(after.ring.buffers[lane]) = 0 \/ call.lane = lane THEN 0
        ELSE IF call.op = "drain" THEN waits[lane] + 1
        ELSE waits[lane]]

LaneDrained(call, out) ==
    /\ bus' = out.bus
    /\ lane_last' = [result |-> out.result, data |-> out.data] @@ call
    /\ lane_left' = [lane_left EXCEPT !.drain = @ - 1]
    /\ lane_waits' = LaneWaits(lane_waits, call, out.bus)
    /\ UNCHANGED lane_mem

umsbb_drain_from(laneIndex) ==
    /\ LaneCanStart("umsbb", "drain")
    /\ LaneDrained(LaneCall("drain_from", laneIndex), UmsbbDrainFrom(bus, laneIndex, lane_mem))
    /\ UNCHANGED lane_pc
    /\ LaneOnly

somakernel_drain_from(laneIndex) ==
    /\ LaneCanStart("somakernel", "drain")
    /\ LaneDrained(LaneCall("drain_from", laneIndex),
                   SomakernelDrainFrom(bus, laneIndex, lane_mem))
    /\ UNCHANGED lane_pc
    /\ LaneOnly

\* somakernel_drain: the lane is ring.currentIndex, which then moves on
somakernel_drain ==
    /\ LaneCanStart("somakernel", "drain")
    /\ LET lane == bus.ring.currentIndex
           out == SomakernelDrainFrom(bus, lane, lane_mem)
       IN LaneDrained(LaneCall("drain", lane),
              [out EXCEPT !.bus.ring.currentIndex = (lane + 1) % bus.ring.activeCount])
    /\ UNCHANGED lane_pc
    /\ LaneOnly

LaneNext ==
    \/ \E laneIndex \in LaneIndexes : umsbb_submit_to(laneIndex)
    \/ umsbb_submit
    \/ \E laneIndex \in LaneIndexes : umsbb_drain_from(laneIndex)
    \/ \E laneIndex \in LaneIndexes : somakernel_submit_to(laneIndex)
    \/ somakernel_submit
    \/ \E laneIndex \in LaneIndexes : somakernel_drain_from(laneIndex)
    \/ somakernel_drain

(***************************************************************************)
(* umsbb_wasm_core.c: one buffer of segments, written and read by one      *)
(* caller                                                                  *)
(***************************************************************************)

WASM_HEADER_SIZE == 16
WASM_ERROR_INVALID_PARAMS == -1
WASM_ERROR_BUFFER_EMPTY == -3
WASM_ERROR_MESSAGE_TOO_LARGE == -5

\* bounds of the runs
WasmMaxWrites == 5
WasmMaxReads == 3

\* inputs: umsbb_create_buffer(segment_size, num_segments), the sizes written
\* (with its header the largest fills a segment) and the reader's max_size
WasmSegmentSize == 64
WasmSegmentCounts == {1, 2}
WasmWriteSizes == {8, 16, 48}
WasmReadSizes == {8, 48}

\* calculate_checksum(data, size): a value that depends on the bytes only
calculate_checksum(payload) == <<"checksum", payload>>

\* umsbb_create_buffer after umsbb_init_system (lines 148-196)
wasm_create_buffer(segment_size, num_segments) ==
    [segments |-> [i \in 0..(num_segments - 1) |->
                      [data |-> << >>, write_pos |-> 0, read_pos |-> 0,
                       capacity |-> segment_size, message_count |-> 0]],
     current_write_segment |-> 0,
     current_read_segment |-> 0,
     segment_size |-> segment_size,
     num_segments |-> num_segments,
     stats |-> [total_messages_written |-> 0, total_messages_read |-> 0,
                total_bytes_written |-> 0, total_bytes_read |-> 0,
                pending_messages |-> 0, peak_pending_messages |-> 0],
     is_initialized |-> 1]

WasmNoCall == [op |-> "none", result |-> 0]
WasmNoBudget == [write |-> 0, read |-> 0]
WasmBudget == [write |-> WasmMaxWrites, read |-> WasmMaxReads]

\* no buffer was created
WasmIdleInit ==
    /\ wasm_buffer = [is_initialized |-> 0]
    /\ wasm_last = WasmNoCall
    /\ wasm_left = WasmNoBudget

WasmInit ==
    /\ \E num_segments \in WasmSegmentCounts :
          wasm_buffer = wasm_create_buffer(WasmSegmentSize, num_segments)
    /\ wasm_last = WasmNoCall
    /\ wasm_left = WasmBudget

\* the segment a write of total_size bytes goes to (lines 232-250): the
\* current one, or the next one, which is reset when it has no room either
WasmWriteSegment(buffer, total_size) ==
    LET cur == buffer.current_write_segment
        next == (cur + 1) % buffer.num_segments
    IN IF buffer.segments[cur].write_pos + total_size > buffer.segments[cur].capacity
       THEN next ELSE cur

WasmSegmentReset(segment) ==
    [segment EXCEPT !.write_pos = 0, !.read_pos = 0, !.message_count = 0]

\* two memcpy of header and data at write_pos (lines 258-259): what was
\* stored in these bytes before is gone
WasmStore(segment, message, total_size) ==
    LET at == segment.write_pos
        kept == {o \in DOMAIN segment.data : o + WASM_HEADER_SIZE + segment.data[o].size <= at
                                              \/ o >= at + total_size}
    IN [segment EXCEPT !.data = [o \in kept \cup {at} |->
                                    IF o = at THEN message ELSE segment.data[o]],
                       !.write_pos = at + total_size,
                       !.message_count = @ + 1]

\* umsbb_write_message on the buffer, for valid arguments (lines 216-274)
wasm_write_message(buffer, payload) ==
    LET size == payload.size
        total_size == WASM_HEADER_SIZE + size
        cur == buffer.current_write_segment
        idx == WasmWriteSegment(buffer, total_size)
        moved == idx # cur \/ buffer.segments[cur].write_pos + total_size
                                  > buffer.segments[cur].capacity
        segment == IF moved /\ buffer.segments[idx].write_pos + total_size
                                  > buffer.segments[idx].capacity
                   THEN WasmSegmentReset(buffer.segments[idx])
                   ELSE buffer.segments[idx]
        header == [size |-> size, checksum |-> calculate_checksum(payload),
                   payload |-> payload]
        pending == buffer.stats.pending_messages + 1
    IN [buffer EXCEPT
          !.segments[idx] = WasmStore(segment, header, total_size),
          !.current_write_segment = idx,
          !.stats.total_messages_written = @ + 1,
          !.stats.total_bytes_written = @ + size,
          !.stats.pending_messages = pending,
          !.stats.peak_pending_messages = IF pending > @ THEN pending ELSE @]

WasmHasMessages(segment) ==
    ~(segment.read_pos >= segment.write_pos \/ segment.message_count = 0)

\* the segment umsbb_read_message reads from (lines 291-310): the current
\* one, or the first one after it that has messages
WasmReadSegment(buffer) ==
    LET cur == buffer.current_read_segment
        found == {i \in 0..(buffer.num_segments - 1) :
                     WasmHasMessages(buffer.segments[(cur + i) % buffer.num_segments])}
        first == CHOOSE i \in found : \A j \in found : i <= j
    IN IF WasmHasMessages(buffer.segments[cur]) \/ found = {} THEN cur
       ELSE (cur + first) % buffer.num_segments

\* umsbb_read_message on the buffer, for valid arguments (lines 276-346): the
\* buffer after the call, the result and the bytes copied out
wasm_read_message(buffer, max_size) ==
    LET idx == WasmReadSegment(buffer)
        segment == buffer.segments[idx]
        chosen == [buffer EXCEPT !.current_read_segment = idx]
    IN IF ~WasmHasMessages(segment)
       THEN [buffer |-> buffer, result |-> WASM_ERROR_BUFFER_EMPTY, out |-> << >>]
       ELSE IF segment.read_pos + WASM_HEADER_SIZE > segment.write_pos
       THEN [buffer |-> chosen, result |-> WASM_ERROR_BUFFER_EMPTY, out |-> << >>]
       ELSE LET header == segment.data[segment.read_pos] IN
       IF header.size > max_size
       THEN [buffer |-> chosen, result |-> WASM_ERROR_MESSAGE_TOO_LARGE, out |-> << >>]
       ELSE IF calculate_checksum(header.payload) # header.checksum
       THEN [buffer |-> chosen, result |-> WASM_ERROR_INVALID_PARAMS, out |-> << >>]
       ELSE [buffer |-> [chosen EXCEPT
                           !.segments[idx].read_pos = @ + WASM_HEADER_SIZE + header.size,
                           !.segments[idx].message_count = @ - 1,
                           !.stats.total_messages_read = @ + 1,
                           !.stats.total_bytes_read = @ + header.size,
                           !.stats.pending_messages = @ - 1],
             result |-> header.size, out |-> <<header.payload>>]

WasmWrites ==
    /\ wasm_buffer.is_initialized = 1
    /\ wasm_left.write > 0
    /\ \E size \in WasmWriteSizes :
          LET payload == [size |-> size,
                          id |-> wasm_buffer.stats.total_messages_written + 1]
          IN /\ wasm_buffer' = wasm_write_message(wasm_buffer, payload)
             /\ wasm_last' = [op |-> "write", result |-> 0, payload |-> payload]
    /\ wasm_left' = [wasm_left EXCEPT !.write = @ - 1]
    /\ WasmOnly

WasmReads ==
    /\ wasm_buffer.is_initialized = 1
    /\ wasm_left.read > 0
    /\ \E max_size \in WasmReadSizes :
          LET r == wasm_read_message(wasm_buffer, max_size)
          IN /\ wasm_buffer' = r.buffer
             /\ wasm_last' = [op |-> "read", result |-> r.result, out |-> r.out]
    /\ wasm_left' = [wasm_left EXCEPT !.read = @ - 1]
    /\ WasmOnly

WasmNext == WasmWrites \/ WasmReads

(***************************************************************************)
(* feedback_handshake.c: the handshake manager, used by one caller         *)
(***************************************************************************)

HANDSHAKE_STATE_PENDING == 0
HANDSHAKE_STATE_ACKED == 1
HANDSHAKE_STATE_NACKED == 2
HANDSHAKE_STATE_TIMEOUT == 3
HANDSHAKE_STATE_RETRY == 4

FEEDBACK_TYPE_ACK == 0
FEEDBACK_TYPE_NACK == 1
FEEDBACK_TYPE_BUSY == 2
FEEDBACK_TYPE_OVERFLOW == 3
FEEDBACK_TYPE_READY == 4

\* handshake_init's defaults (lines 50-53)
HS_DEFAULT_TIMEOUT_MS == 1000
HS_MAX_RETRIES == 3
HS_RETRY_BACKOFF_MS == 100

\* bounds of the runs
HsMaxSends == 2
HsMaxFeedbacks == 4
HsMaxTimeouts == 2
HsMaxRetries == 3

\* inputs: the capacity given to handshake_init; the ids of the sender and
\* of the feedback messages; the time since the entries were sent
HsCapacity == 3
HsProducer == 1
HsConsumer == 2
HsStranger == 3
HsFeedbackTypes == FEEDBACK_TYPE_ACK..FEEDBACK_TYPE_READY
HsFeedbackSequences == 0..(HsMaxSends - 1)
HsFeedbackProducers == {HsProducer, HsStranger}
HsLongWaitMs == 100000
HsElapsedMs == {0, HsLongWaitMs}

\* an entry of the calloc'ed array
HsZeroEntry ==
    [sequence |-> 0, producer_id |-> 0, consumer_id |-> 0,
     state |-> HANDSHAKE_STATE_PENDING, retry_count |-> 0, timeout_ms |-> 0]

handshake_init(capacity) ==
    [entries |-> [i \in 0..(capacity - 1) |-> HsZeroEntry],
     capacity |-> capacity, head |-> 0, tail |-> 0, pending_count |-> 0,
     default_timeout_ms |-> HS_DEFAULT_TIMEOUT_MS,
     max_retries |-> HS_MAX_RETRIES,
     retry_backoff_ms |-> HS_RETRY_BACKOFF_MS,
     zero_loss_mode |-> TRUE,
     total_messages |-> 0, successful_acks |-> 0, failed_deliveries |-> 0,
     timeouts |-> 0, retries |-> 0]

\* handshake_send_message with valid arguments: the manager after the call,
\* the value returned, and whether an entry was made
handshake_send_message(m, producer_id, consumer_id) ==
    IF (m.head + 1) % m.capacity = m.tail
    THEN [manager |-> m, sequence |-> 0, registered |-> FALSE]
    ELSE LET sequence == m.head
             index == sequence % m.capacity
             entry == [sequence |-> sequence, producer_id |-> producer_id,
                       consumer_id |-> consumer_id,
                       state |-> HANDSHAKE_STATE_PENDING, retry_count |-> 0,
                       timeout_ms |-> m.default_timeout_ms]
         IN [manager |-> [m EXCEPT !.head = @ + 1,
                                   !.entries[index] = entry,
                                   !.pending_count = @ + 1,
                                   !.total_messages = @ + 1],
             sequence |-> sequence, registered |-> TRUE]

\* umsbb_send_reliable's reading of the value returned (line 399)
SendReported(sequence) == IF sequence > 0 THEN "sent" ELSE "failed"

\* the entry is given up: it keeps the state it has, the delivery is counted
\* as failed and pending_count is decremented (atomic_fetch_sub on a uint32)
HsGiveUp(m, index, state) ==
    [m EXCEPT !.entries[index].state = state,
              !.failed_deliveries = @ + 1,
              !.pending_count = UDec(@)]

HsScheduleRetry(m, index, timeout_ms) ==
    [m EXCEPT !.entries[index].state = HANDSHAKE_STATE_RETRY,
              !.entries[index].retry_count = @ + 1,
              !.entries[index].timeout_ms = timeout_ms,
              !.retries = @ + 1]

\* handshake_process_feedback: the manager after the call and the result
handshake_process_feedback(m, feedback) ==
    LET index == feedback.sequence % m.capacity
        entry == m.entries[index]
        may_retry == entry.retry_count < m.max_retries
    IN IF \/ entry.sequence # feedback.sequence
          \/ entry.producer_id # feedback.producer_id
          \/ entry.consumer_id # feedback.consumer_id
       THEN [manager |-> m, result |-> FALSE]
       ELSE [result |-> TRUE,
             manager |->
               IF feedback.type = FEEDBACK_TYPE_ACK
               THEN [m EXCEPT !.entries[index].state = HANDSHAKE_STATE_ACKED,
                              !.successful_acks = @ + 1,
                              !.pending_count = UDec(@)]
               ELSE IF feedback.type = FEEDBACK_TYPE_NACK
               THEN IF m.zero_loss_mode /\ may_retry
                    THEN HsScheduleRetry(m, index, entry.timeout_ms)
                    ELSE HsGiveUp(m, index, HANDSHAKE_STATE_NACKED)
               ELSE IF feedback.type = FEEDBACK_TYPE_BUSY
               THEN IF may_retry
                    THEN HsScheduleRetry(m, index, entry.timeout_ms + m.retry_backoff_ms)
                    ELSE HsGiveUp(m, index, HANDSHAKE_STATE_NACKED)
               ELSE IF feedback.type = FEEDBACK_TYPE_OVERFLOW
               THEN IF may_retry
                    THEN HsScheduleRetry(m, index, entry.timeout_ms * 2)
                    ELSE HsGiveUp(m, index, HANDSHAKE_STATE_NACKED)
               ELSE m]

\* the entries between tail and head, by index; head - tail < capacity, so
\* no index is met twice
HsQueued(m) == {i % m.capacity : i \in m.tail..(m.head - 1)}

\* handshake_process_timeouts, elapsed_ms after the entries were sent
HsExpired(m, elapsed_ms) ==
    {index \in HsQueued(m) :
        /\ m.entries[index].state = HANDSHAKE_STATE_PENDING
        /\ elapsed_ms * 1000 > m.entries[index].timeout_ms * 1000}

handshake_process_timeouts(m, elapsed_ms) ==
    LET expired == HsExpired(m, elapsed_ms)
        again == {index \in expired :
                     m.zero_loss_mode /\ m.entries[index].retry_count < m.max_retries}
        lost == expired \ again
    IN [m EXCEPT
          !.entries = [index \in DOMAIN m.entries |->
                          IF index \in again
                          THEN [@[index] EXCEPT !.state = HANDSHAKE_STATE_RETRY,
                                                !.retry_count = @ + 1,
                                                !.timeout_ms = @ * 2]
                          ELSE IF index \in lost
                          THEN [@[index] EXCEPT !.state = HANDSHAKE_STATE_TIMEOUT]
                          ELSE @[index]],
          !.timeouts = @ + Cardinality(expired),
          !.retries = @ + Cardinality(again),
          !.failed_deliveries = @ + Cardinality(lost),
          !.pending_count = @ - Cardinality(lost)]

\* handshake_retry_failed_messages: the manager after the call and the result
\* (the loop stops after 10 entries, more than a queue of HsCapacity holds)
handshake_retry_failed_messages(m) ==
    LET marked == {index \in HsQueued(m) : m.entries[index].state = HANDSHAKE_STATE_RETRY}
    IN [manager |-> [m EXCEPT !.entries =
                        [index \in DOMAIN m.entries |->
                            IF index \in marked
                            THEN [@[index] EXCEPT !.state = HANDSHAKE_STATE_PENDING]
                            ELSE @[index]]],
        result |-> marked # {}]

HsNoCall == [op |-> "none"]
HsNoBudget == [send |-> 0, feedback |-> 0, timeout |-> 0, retry |-> 0]
HsBudget == [send |-> HsMaxSends, feedback |-> HsMaxFeedbacks,
             timeout |-> HsMaxTimeouts, retry |-> HsMaxRetries]

\* no manager was made
HandshakeIdleInit ==
    /\ manager = [capacity |-> 0]
    /\ hs_last = HsNoCall
    /\ hs_left = HsNoBudget

\* the state after handshake_init
HandshakeInit ==
    /\ manager = handshake_init(HsCapacity)
    /\ hs_last = HsNoCall
    /\ hs_left = HsBudget

\* umsbb_send_reliable: handshake_send_message and the reading of its result
umsbb_send_reliable ==
    /\ hs_left.send > 0
    /\ LET r == handshake_send_message(manager, HsProducer, HsConsumer)
       IN /\ manager' = r.manager
          /\ hs_last' = [op |-> "send", sequence |-> r.sequence,
                         registered |-> r.registered,
                         reported |-> SendReported(r.sequence)]
    /\ hs_left' = [hs_left EXCEPT !.send = @ - 1]
    /\ HandshakeOnly

HsFeedback ==
    /\ hs_left.feedback > 0
    /\ \E sequence \in HsFeedbackSequences, type \in HsFeedbackTypes,
          producer_id \in HsFeedbackProducers :
          LET feedback == [sequence |-> sequence, type |-> type,
                           producer_id |-> producer_id, consumer_id |-> HsConsumer]
              r == handshake_process_feedback(manager, feedback)
          IN /\ manager' = r.manager
             /\ hs_last' = [op |-> "feedback", feedback |-> feedback,
                            was |-> manager.entries[sequence % manager.capacity].state,
                            result |-> r.result]
    /\ hs_left' = [hs_left EXCEPT !.feedback = @ - 1]
    /\ HandshakeOnly

HsTimeouts ==
    /\ hs_left.timeout > 0
    /\ \E elapsed_ms \in HsElapsedMs :
          /\ manager' = handshake_process_timeouts(manager, elapsed_ms)
          /\ hs_last' = [op |-> "timeouts", elapsed_ms |-> elapsed_ms]
    /\ hs_left' = [hs_left EXCEPT !.timeout = @ - 1]
    /\ HandshakeOnly

HsRetries ==
    /\ hs_left.retry > 0
    /\ LET r == handshake_retry_failed_messages(manager)
       IN /\ manager' = r.manager
          /\ hs_last' = [op |-> "retry", result |-> r.result]
    /\ hs_left' = [hs_left EXCEPT !.retry = @ - 1]
    /\ HandshakeOnly

HandshakeNext == umsbb_send_reliable \/ HsFeedback \/ HsTimeouts \/ HsRetries

(***************************************************************************)
(* Specifications                                                          *)
(***************************************************************************)

RingInit == RbInit /\ CoreIdleInit /\ LaneIdleInit /\ WasmIdleInit /\ HandshakeIdleInit

SpecRing == RingInit /\ [][RbNext]_vars

RingSeqInit == RbStart(RbSeqMaxOps) /\ CoreIdleInit /\ LaneIdleInit /\ WasmIdleInit /\ HandshakeIdleInit

SpecRingSeq == RingSeqInit /\ [][RbSeqNext]_vars

RingLiveInit == RbStart(RbLiveMaxOps) /\ CoreIdleInit /\ LaneIdleInit /\ WasmIdleInit /\ HandshakeIdleInit

SpecRingLive == RingLiveInit /\ [][RbLiveNext]_vars /\ RbLiveFair

CoreSeqInit == RbInit /\ CoreInit(CoreSeqBudget) /\ LaneIdleInit /\ WasmIdleInit /\ HandshakeIdleInit

SpecCore == CoreSeqInit /\ [][CoreSeqNext]_vars

CoreFillInit == RbInit /\ CoreInit(CoreFillBudget) /\ LaneIdleInit /\ WasmIdleInit /\ HandshakeIdleInit

SpecCoreFill == CoreFillInit /\ [][CoreFillNext]_vars

CoreCycleInit == RbInit /\ CoreInit(CoreCycleBudget) /\ LaneIdleInit /\ WasmIdleInit /\ HandshakeIdleInit

SpecCoreCycle == CoreCycleInit /\ [][CoreCycleNext]_vars

CoreFlipInit == RbInit /\ CoreInit(CoreFlipBudget) /\ LaneIdleInit /\ WasmIdleInit /\ HandshakeIdleInit

SpecCoreFlip == CoreFlipInit /\ [][CoreFlipNext]_vars

CoreRaceInit == RbInit /\ CoreInit(CoreRaceBudget) /\ LaneIdleInit /\ WasmIdleInit /\ HandshakeIdleInit

SpecCoreRace == CoreRaceInit /\ [][CoreRaceNext]_vars

CoreManyInit == RbInit /\ CoreInit(CoreManyBudget) /\ LaneIdleInit /\ WasmIdleInit /\ HandshakeIdleInit

SpecCoreMany == CoreManyInit /\ [][CoreManyNext]_vars

CoreConcInit == RbInit /\ CoreInit(CoreConcBudget) /\ LaneIdleInit /\ WasmIdleInit /\ HandshakeIdleInit

SpecCoreConc == CoreConcInit /\ [][CoreConcNext]_vars

LaneBusInit == RbInit /\ CoreIdleInit /\ LaneInit /\ WasmIdleInit /\ HandshakeIdleInit

\* somakernel_submit_to by the submitting thread, up to bi_buffer_commit
\* (lines 25-44); event_signal is still to come when the message was committed
submit_commit(laneIndex) ==
    /\ LaneCanStart("somakernel", "submit")
    /\ lane_pc.submit = "idle"
    /\ LET out == SomakernelSubmitTo(bus, laneIndex, NextMsg, NextBytes)
       IN /\ LaneSubmitted(LaneCall("submit_to", laneIndex),
                 [out EXCEPT !.bus = IF out.result = "accepted"
                                     THEN [@ EXCEPT !.scheduler.signal = bus.scheduler.signal]
                                     ELSE @])
          /\ lane_pc' = [lane_pc EXCEPT !.submit =
                            IF out.result = "accepted" THEN "signal" ELSE "idle"]
    /\ LaneOnly

\* event_signal(&bus->scheduler) (line 45), and the return
submit_signal ==
    /\ lane_pc.submit = "signal"
    /\ bus' = [bus EXCEPT !.scheduler.signal = TRUE]
    /\ lane_pc' = [lane_pc EXCEPT !.submit = "idle"]
    /\ UNCHANGED <<lane_mem, lane_last, lane_left, lane_waits>>
    /\ LaneOnly

\* somakernel_drain_from by the draining thread, up to the end of the scan of
\* the lanes (lines 65-111); event_clear is still to come when the scan found
\* nothing to read
drain_scan(laneIndex) ==
    /\ LaneCanStart("somakernel", "drain")
    /\ lane_pc.drain = "idle"
    /\ LET out == SomakernelDrainFrom(bus, laneIndex, lane_mem)
           released == out.result \in {"drained", "corrupted"}
       IN /\ LaneDrained(LaneCall("drain_from", laneIndex),
                 [out EXCEPT !.bus = IF released
                                     THEN [@ EXCEPT !.scheduler.signal = bus.scheduler.signal]
                                     ELSE @])
          /\ lane_pc' = [lane_pc EXCEPT !.drain =
                            IF released /\ ~HasMoreData(out.bus) THEN "clear" ELSE "idle"]
    /\ LaneOnly

\* event_clear(&bus->scheduler) (lines 112-114), and the return
drain_clear ==
    /\ lane_pc.drain = "clear"
    /\ bus' = [bus EXCEPT !.scheduler.signal = FALSE]
    /\ lane_pc' = [lane_pc EXCEPT !.drain = "idle"]
    /\ UNCHANGED <<lane_mem, lane_last, lane_left, lane_waits>>
    /\ LaneOnly

LaneConcNext ==
    \/ \E laneIndex \in LaneFifoLanes : submit_commit(laneIndex)
    \/ submit_signal
    \/ \E laneIndex \in LaneFifoLanes : drain_scan(laneIndex)
    \/ drain_clear

LaneConcBusInit == RbInit /\ CoreIdleInit /\ LaneConcInit /\ WasmIdleInit /\ HandshakeIdleInit

SpecLaneConc == LaneConcBusInit /\ [][LaneConcNext]_vars

\* umsbb_submit_to and umsbb_drain_from calls on lane 0, in any order
LaneLongNext == umsbb_submit_to(0) \/ umsbb_drain_from(0)

LaneLongBusInit == RbInit /\ CoreIdleInit /\ LaneLongInit /\ WasmIdleInit /\ HandshakeIdleInit

SpecLaneLong == LaneLongBusInit /\ [][LaneLongNext]_vars

\* submit_to and drain_from calls on the first lanes, in any order
LaneFifoNext ==
    \E laneIndex \in LaneFifoLanes :
        \/ umsbb_submit_to(laneIndex)
        \/ umsbb_drain_from(laneIndex)
        \/ somakernel_submit_to(laneIndex)
        \/ somakernel_drain_from(laneIndex)

LaneFifoBusInit == RbInit /\ CoreIdleInit /\ LaneFifoInit /\ WasmIdleInit /\ HandshakeIdleInit

SpecLaneFifo == LaneFifoBusInit /\ [][LaneFifoNext]_vars

\* somakernel_submit and somakernel_drain calls, in any order
LaneRoundNext == somakernel_submit \/ somakernel_drain

LaneRoundBusInit == RbInit /\ CoreIdleInit /\ LaneRoundInit /\ WasmIdleInit /\ HandshakeIdleInit

SpecLaneRound == LaneRoundBusInit /\ [][LaneRoundNext]_vars

WasmBufferInit == RbInit /\ CoreIdleInit /\ LaneIdleInit /\ WasmInit /\ HandshakeIdleInit

SpecWasm == WasmBufferInit /\ [][WasmNext]_vars

HandshakeManagerInit == RbInit /\ CoreIdleInit /\ LaneIdleInit /\ WasmIdleInit /\ HandshakeInit

SpecHandshake == HandshakeManagerInit /\ [][HandshakeNext]_vars

SpecLane == LaneBusInit /\ [][LaneNext]_vars

(***************************************************************************)
(* Claims about the RingBuffer                                             *)
(***************************************************************************)

Range(f) == {f[x] : x \in DOMAIN f}

RbSlotIds == {<<p, i>> \in (0..(RbMaxProducers - 1)) \X (0..RbSlotsPerProducer) :
                 /\ p \in DOMAIN producers
                 /\ producers[p] # Null
                 /\ i \in DOMAIN producers[p].slots}

\* C1: every message accepted by produce is returned by at most one successful
\* consume call (consumers racing for one READY slot: exactly one gets it).
C1_AtMostOneConsume ==
    \A m \in Range(rb_accepted) :
        Cardinality({k \in DOMAIN rb_delivered : rb_delivered[k].msg = m}) <= 1

\* The state transitions the slot state machine allows
RbLegalTransitions ==
    {<<FREE, READY>>, <<READY, CONSUMING>>, <<CONSUMING, FEEDBACK>>, <<FEEDBACK, FREE>>}

\* C2: every change of a slot's state is one of FREE->READY, READY->CONSUMING,
\* CONSUMING->FEEDBACK, FEEDBACK->FREE.
C2_OnlyLegalTransitions ==
    [][\A id \in RbSlotIds :
          LET before == producers[id[1]].slots[id[2]].state
              after == producers'[id[1]].slots[id[2]].state
          IN before # after => <<before, after>> \in RbLegalTransitions]_vars

\* Thread t has a plain write of slot <<p, i>>'s msg in progress
RbWritingMsg(t, p, i) ==
    /\ rb_pc[t] \in {"p_write", "p_write_text", "p_setpid"}
    /\ rb_loc[t].pid = p /\ rb_loc[t].idx = i

\* Thread t has a plain read of slot <<p, i>>'s msg in progress
RbReadingMsg(t, p, i) ==
    /\ rb_pc[t] \in {"c_copy", "c_copy_text"}
    /\ rb_loc[t].p = p /\ rb_loc[t].i = i

\* C3: from the moment a slot is READY until it is FREE again nobody writes its
\* msg, and at no time does one thread write a slot's msg while another thread
\* reads it.
C3_NoWriteOnceReady ==
    /\ [][\A id \in RbSlotIds :
            producers'[id[1]].slots[id[2]].msg # producers[id[1]].slots[id[2]].msg
                => producers[id[1]].slots[id[2]].state = FREE]_vars
    /\ [](\A id \in RbSlotIds : \A w, r \in RbThreads :
            ~(RbWritingMsg(w, id[1], id[2]) /\ RbReadingMsg(r, id[1], id[2])))

\* C4: whenever consume returns true, the returned message is exactly one of
\* the messages handed to a produce that took a slot, with producer_id set to
\* the producing segment's id.
C4_RoundTripFidelity ==
    \A k \in DOMAIN rb_delivered : rb_delivered[k].msg \in rb_committed

(***************************************************************************)
(* Claims about umsbb_complete_core                                        *)
(***************************************************************************)

\* C5: once umsbb_destroy_buffer(h) has returned UMSBB_SUCCESS, every later
\* umsbb_write_message, umsbb_read_message and umsbb_destroy_buffer on h
\* returns UMSBB_ERROR_INVALID_HANDLE.  The parameter check of write and read
\* comes before the handle lookup (lines 348 and 425), so the statement is
\* taken over the calls that pass it.
C5_DestroyedHandleRejected ==
    \A t \in CoreThreads :
        ( /\ core_last[t].op \in {"write", "read", "destroy"}
          /\ core_last[t].late
          /\ core_last[t].result # UMSBB_ERROR_INVALID_PARAMS )
            => core_last[t].result = UMSBB_ERROR_INVALID_HANDLE

\* C6: no handle value is returned by umsbb_create_buffer twice.
C6_HandleNeverReissued ==
    \A i, j \in DOMAIN core_issued : i # j => core_issued[i] # core_issued[j]

\* C7: no call is about to use the buffer struct, or the segment memory, after
\* umsbb_destroy_buffer has freed it.
C7_NoUseAfterFree == \A t \in CoreThreads : ~UsesFreed(t)

\* the buffers that are registered, initialized and allocated
LiveBuffers ==
    {b \in DOMAIN heap : /\ ~heap[b].freed
                         /\ heap[b].initialized # 0
                         /\ \E h \in DOMAIN g_buffers : g_buffers[h] = b}

\* C8: when no call is in progress, every live buffer has
\* total_messages_written = total_messages_read + current_pending_messages
\* (a negative current_pending_messages stands for a wrapped counter, which
\* no count of messages equals).
C8_CountersBalance ==
    (\A t \in CoreThreads : core_pc[t] = "idle") =>
        \A b \in LiveBuffers :
            /\ heap[b].current_pending_messages >= 0
            /\ heap[b].total_messages_written =
                   heap[b].total_messages_read + heap[b].current_pending_messages

\* In this step the umsbb_write_message call of thread t returns
WriteReturns(t) ==
    /\ t <= core_left.threads
    /\ core_pc'[t] = "idle"
    /\ \/ core_pc[t] = "idle" /\ core_left'.write # core_left.write
       \/ core_pc[t] # "idle" /\ core_loc[t].op = "write"

\* the heap when the umsbb_write_message call of thread t started
HeapBefore(t) == IF core_pc[t] = "idle" THEN heap ELSE core_loc[t].before

\* C10: a umsbb_write_message that returns an error leaves every buffer as it
\* was when the call started (sequence counter, segment data, write_pos,
\* read_pos, message_count and every counter), except that failed_writes may
\* have grown by one.
C10_FailedWriteFrame ==
    [][\A t \in CoreThreads :
          (WriteReturns(t) /\ core_last'[t].result # UMSBB_SUCCESS) =>
              /\ core_last'[t].result \in {UMSBB_ERROR_INVALID_PARAMS,
                                           UMSBB_ERROR_INVALID_HANDLE,
                                           UMSBB_ERROR_BUFFER_FULL}
              /\ DOMAIN heap' = DOMAIN HeapBefore(t)
              /\ \A b \in DOMAIN heap' :
                    /\ heap'[b] = [HeapBefore(t)[b] EXCEPT
                                      !.failed_writes = heap'[b].failed_writes]
                    /\ heap'[b].failed_writes - HeapBefore(t)[b].failed_writes \in {0, 1}
                    /\ heap'[b].failed_writes # HeapBefore(t)[b].failed_writes
                          => core_last'[t].result = UMSBB_ERROR_BUFFER_FULL]_vars

\* a umsbb_write_message has returned UMSBB_ERROR_BUFFER_FULL and counted the
\* failure, after every segment took a message
C10_Witness ==
    /\ core_last[1].op = "write"
    /\ core_last[1].result = UMSBB_ERROR_BUFFER_FULL
    /\ \E b \in DOMAIN heap :
          /\ heap[b].failed_writes = 1
          /\ heap[b].total_messages_written = UMSBB_SEGMENT_COUNT

(***************************************************************************)
(* Claims about the lane bus                                               *)
(***************************************************************************)

\* C9: a submission to a lane whose in-flight amount (writeIndex - readIndex)
\* is, at the time of the call, greater than or equal to the high-water mark,
\* 80% of the lane capacity, is refused as throttled.
C9_ThrottledAtHighWater ==
    (/\ lane_last.op \in {"submit_to", "submit"}
     /\ lane_last.capacity > 0
     /\ 5 * lane_last.in_flight >= 4 * lane_last.capacity)
        => lane_last.result = "throttled"

\* a umsbb_submit_to, umsbb_submit, somakernel_submit_to or somakernel_submit
\* call returns in this step
LaneSubmitReturns == lane_left'.submit < lane_left.submit

\* what a submission may not touch on its lane when it is refused
LaneProducerSide(buf) ==
    [writeIndex |-> buf.writeIndex, commitIndex |-> buf.commitIndex,
     regionC |-> buf.regionC]

\* C11: a submission that is refused (throttled, no arena room, or no room in
\* the lane) leaves bus->sequence as it was and changes no slot state,
\* writeIndex or commitIndex of the lane it was aimed at.
C11_RefusedSubmitConsumesNothing ==
    [][(LaneSubmitReturns /\ lane_last'.result \in {"throttled", "skipped"})
          => /\ bus'.sequence = bus.sequence
             /\ LaneProducerSide(bus'.ring.buffers[lane_last'.lane])
                  = LaneProducerSide(bus.ring.buffers[lane_last'.lane])]_vars

(***************************************************************************)
(* Claims about umsbb_complete_core, write/read cycles                     *)
(***************************************************************************)

\* In this step a umsbb_read_message of thread t that passed its parameter
\* check returns, and it is the call that follows a successful
\* umsbb_write_message on the same handle, made on a buffer with no pending
\* message, with an output buffer that holds the written message
ReadFollowsWrite(t) ==
    /\ t <= core_left.threads
    /\ core_pc[t] \in {"r_find", "r_check", "r_copy", "r_pending"}
    /\ core_pc'[t] = "idle"
    /\ core_last[t].op = "write"
    /\ core_last[t].result = UMSBB_SUCCESS
    /\ core_last[t].on_empty
    /\ core_loc[t].handle = core_last[t].handle
    /\ core_loc[t].buffer_size >= core_last[t].payload.size

\* C12: single thread; after a umsbb_write_message that succeeded on a buffer
\* with no pending messages, the immediately following umsbb_read_message
\* with a large-enough output buffer returns UMSBB_SUCCESS with exactly the
\* written bytes and size, after any earlier write/read cycles.
C12_WriteThenReadRoundTrip ==
    [][\A t \in CoreThreads :
          ReadFollowsWrite(t)
              => /\ core_last'[t].result = UMSBB_SUCCESS
                 /\ core_last'[t].out = core_last[t].payload]_vars

(***************************************************************************)
(* Claims about umsbb_complete_core, bits flipped in the segment memory    *)
(***************************************************************************)

\* thread t is at the memcpy of a umsbb_read_message, and the message at the
\* read offset had one of its bits flipped after it was written
ReadReachesFlipped(t) ==
    /\ t <= core_left.threads
    /\ core_pc[t] = "r_copy"
    /\ LET l == core_loc[t]
           segment == heap[l.buffer].segments[l.seg]
           off == l.current_read % segment.size
       IN /\ off \in DOMAIN segment.data
          /\ segment.data[off].flipped
          /\ segment.data[off].intact

\* C18: when one bit of the stored header or payload of a pending message was
\* flipped between its umsbb_write_message and the umsbb_read_message that
\* reaches it, that read returns UMSBB_ERROR_CORRUPTED_DATA.
C18_BitFlipDetected ==
    [][\A t \in CoreThreads :
          ReadReachesFlipped(t)
              => /\ core_pc'[t] = "idle"
                 /\ core_last'[t].result = UMSBB_ERROR_CORRUPTED_DATA]_vars

\* In this step the umsbb_read_message call of thread t returns
ReadReturns(t) ==
    /\ t <= core_left.threads
    /\ core_pc'[t] = "idle"
    /\ \/ core_pc[t] = "idle" /\ core_left'.read # core_left.read
       \/ core_pc[t] # "idle" /\ core_loc[t].op = "read"

\* C19: when umsbb_read_message returns UMSBB_ERROR_CORRUPTED_DATA,
\* failed_reads has grown by one and the message is dropped: the read
\* position of its segment has moved past it and the buffer has one pending
\* message less.
C19_CorruptedIsDropped ==
    [][\A t \in CoreThreads :
          (ReadReturns(t) /\ core_last'[t].result = UMSBB_ERROR_CORRUPTED_DATA) =>
              LET l == core_loc[t]
                  old == HeapBefore(t)[l.buffer]
                  new == heap'[l.buffer]
              IN /\ new.failed_reads = old.failed_reads + 1
                 /\ UGreater(new.segments[l.seg].read_pos, old.segments[l.seg].read_pos)
                 /\ new.segments[l.seg].message_count
                        = UDec(old.segments[l.seg].message_count)
                 /\ new.current_pending_messages = UDec(old.current_pending_messages)]_vars

(***************************************************************************)
(* Claims about umsbb_complete_core, failed reads                          *)
(***************************************************************************)

\* the results of a umsbb_read_message that found nothing it could return
ReadFailures ==
    {UMSBB_ERROR_INVALID_SIZE, UMSBB_ERROR_INVALID_PARAMS,
     UMSBB_ERROR_INVALID_HANDLE, UMSBB_ERROR_BUFFER_EMPTY}

\* In this step a umsbb_read_message of thread t returns, and it is the call
\* that follows a umsbb_read_message on the same handle that found the
\* caller's buffer too small for the next message, now with a buffer that
\* holds that message
ReadFollowsRejected(t) ==
    /\ ReadReturns(t)
    /\ core_pc[t] # "idle"
    /\ core_loc[t].retried
    /\ core_loc[t].handle = core_last[t].handle
    /\ core_loc[t].buffer_size >= core_last[t].next.header.size

\* C20: a umsbb_read_message that returns INVALID_SIZE, INVALID_PARAMS,
\* INVALID_HANDLE or BUFFER_EMPTY leaves every buffer (positions, counters,
\* segment data) as it was when the call started, and after a read that
\* found the caller's buffer too small the next read with a large-enough
\* buffer returns that same message, with its bytes as they were written.
C20_FailedReadFrame ==
    [][\A t \in CoreThreads :
          /\ (ReadReturns(t) /\ core_last'[t].result \in ReadFailures)
                => heap' = HeapBefore(t)
          /\ ReadFollowsRejected(t)
                => /\ core_last'[t].result = UMSBB_SUCCESS
                   /\ core_last'[t].out = core_last[t].next.payload
                   /\ core_last'[t].sequence = core_last[t].next.header.sequence]_vars

\* a umsbb_read_message found the caller's buffer too small and changed
\* nothing, and the next read has returned the message
C20_Witness ==
    /\ core_last[1].op = "read"
    /\ core_last[1].result = UMSBB_SUCCESS
    /\ core_last[1].retried
    /\ core_last[1].out.size > 1
    /\ \E b \in DOMAIN heap :
          /\ heap[b].failed_reads = 0
          /\ heap[b].total_messages_read = 1

(***************************************************************************)
(* Claims about the RingBuffer, runs without concurrency                   *)
(***************************************************************************)

\* thread t is at the compare-exchange of a produce on segment pid, which is
\* the n-th produce that passed the checks on that segment
RbNthProduce(t, pid, n) ==
    /\ rb_pc[t] = "p_cas"
    /\ rb_loc[t].pid = pid
    /\ producers[pid].head = n

\* the compare-exchange thread t is about to make will find its slot FREE
RbProduceWillSucceed(t) == SlotOf(rb_loc[t].pid, rb_loc[t].idx).state = FREE

RbHasFreeSlot(pid) ==
    \E i \in DOMAIN producers[pid].slots : producers[pid].slots[i].state = FREE

\* C13: on a segment with S slots the first S produces succeed; the next one,
\* made before any consume, fails; and the produce after that, made once one
\* of the S messages was consumed and its slot released to FREE, succeeds.
C13_FillThenRelease ==
    \A t \in RbThreads : \A pid \in DOMAIN producers :
        producers[pid] # Null =>
            LET S == producers[pid].slots_count IN
            /\ (\E n \in 1..S : RbNthProduce(t, pid, n)) => RbProduceWillSucceed(t)
            /\ (RbNthProduce(t, pid, S + 1) /\ rb_delivered = << >>)
                  => ~RbProduceWillSucceed(t)
            /\ (RbNthProduce(t, pid, S + 2) /\ Len(rb_accepted) = S /\ RbHasFreeSlot(pid))
                  => RbProduceWillSucceed(t)

\* the messages consume calls have returned
RbDeliveredMsgs == {rb_delivered[k].msg : k \in DOMAIN rb_delivered}

\* message m sits in a READY slot of the segment that produced it, where a
\* consume of its target consumer finds it
RbReadable(m) ==
    /\ ValidProducer(m.producer_id)
    /\ \E i \in DOMAIN producers[m.producer_id].slots :
          /\ SlotOf(m.producer_id, i).state = READY
          /\ SlotOf(m.producer_id, i).msg = m

\* C14: no produce runs on a detached segment, and every message a produce
\* accepted that no consume has returned yet stays readable for its consumer
\* (seen between calls), also after its producer was detached.
C14_DetachKeepsInFlight ==
    /\ \A t \in RbThreads :
          rb_pc[t] \in {"p_cas", "p_write", "p_write_text", "p_setpid", "p_store"}
              => ValidProducer(rb_loc[t].pid)
    /\ RbAllIdle => \A m \in Range(rb_accepted) : m \in RbDeliveredMsgs \/ RbReadable(m)

(***************************************************************************)
(* Claims about the RingBuffer, routing and order                          *)
(***************************************************************************)

\* C15: every message a consume(cid) call returns is addressed to cid.
C15_RoutedToTarget ==
    \A k \in DOMAIN rb_delivered : rb_delivered[k].msg.consumer_id = rb_delivered[k].cid

\* C16: when produce accepted m1 and later m2 on the same segment, both for
\* the same consumer, no consume returns m2 unless an earlier consume
\* returned m1.
C16_SegmentOrder ==
    \A i, j \in DOMAIN rb_accepted :
        ( /\ i < j
          /\ rb_accepted[i].producer_id = rb_accepted[j].producer_id
          /\ rb_accepted[i].consumer_id = rb_accepted[j].consumer_id )
        => \A k2 \in DOMAIN rb_delivered :
              rb_delivered[k2].msg = rb_accepted[j]
                  => \E k1 \in 1..(k2 - 1) : rb_delivered[k1].msg = rb_accepted[i]

(***************************************************************************)
(* Claims about the RingBuffer, progress                                   *)
(***************************************************************************)

\* between calls, slot i of segment p is READY with a message for the
\* attached consumer cid
RbReadyFor(p, i, cid) ==
    /\ RbAllIdle
    /\ ValidProducer(p)
    /\ i \in DOMAIN producers[p].slots
    /\ SlotOf(p, i).state = READY
    /\ SlotOf(p, i).msg.consumer_id = cid
    /\ ValidConsumer(cid)

RbInFeedback(p, i) ==
    ValidProducer(p) /\ i \in DOMAIN producers[p].slots /\ SlotOf(p, i).state = FEEDBACK

\* a consume call of thread t gives up in this step: it returns false after
\* its scan
RbConsumeGivesUp(t) ==
    /\ rb_pc[t] \in {"c_scan", "c_cas"}
    /\ rb_pc'[t] = "idle"

\* C17: a consume(c) call does not return false while a slot is READY for the
\* attached consumer c, and with a consumer that keeps calling consume and
\* writeFeedback every slot that is READY for an attached consumer eventually
\* reaches FEEDBACK.
C17_ReadyReachesFeedback ==
    /\ [][\A t \in RbThreads : RbConsumeGivesUp(t) =>
            ~\E p \in DOMAIN producers : \E i \in 0..(RbSlotsPerProducer - 1) :
                /\ ValidProducer(p)
                /\ SlotOf(p, i).state = READY
                /\ SlotOf(p, i).msg.consumer_id = rb_loc[t].cid]_vars
    /\ \A p \in 0..(RbMaxProducers - 1) : \A i \in 0..(RbSlotsPerProducer - 1) :
          \A cid \in 0..(RbMaxConsumers - 1) :
              RbReadyFor(p, i, cid) ~> RbInFeedback(p, i)

(***************************************************************************)
(* Claims about umsbb_complete_core, concurrent writers and readers        *)
(***************************************************************************)

\* the sequence numbers stamped so far on the buffer at `buffer` that the
\* state still holds: in the headers of the calls under way and in the
\* headers stored in its segments
StampedOn(buffer) ==
    {core_loc[t].header.sequence :
        t \in {u \in CoreThreads :
                 /\ core_pc[u] \in {"w_copy", "w_pos", "w_count", "w_pending",
                                     "w_peak", "w_peak_store"}
                 /\ core_loc[u].buffer = buffer}}
    \cup UNION {{heap[buffer].segments[seg].data[off].header.sequence :
                    off \in DOMAIN heap[buffer].segments[seg].data} :
                 seg \in CoreSegments}

\* the calls under way that hold a stamped header, per buffer
StampHolders(buffer) ==
    {t \in CoreThreads :
        /\ core_pc[t] \in {"w_copy", "w_pos", "w_count", "w_pending",
                            "w_peak", "w_peak_store"}
        /\ core_loc[t].buffer = buffer}

\* C21: the sequence numbers stamped by umsbb_write_message on one buffer are
\* pairwise distinct and each is greater than every one stamped before it,
\* also with concurrent writers, and the steps of a write up to its space
\* check, where every failing write returns, stamp none.
C21_SequencesIncrease ==
    /\ [](\A b \in DOMAIN heap :
            /\ \A q \in StampedOn(b) : q <= heap[b].total_messages_written
            /\ \A t, u \in StampHolders(b) :
                  t # u => core_loc[t].header.sequence # core_loc[u].header.sequence)
    /\ [][\A t \in CoreThreads :
            /\ (core_pc[t] = "w_seq" /\ core_pc'[t] = "w_copy")
                  => /\ core_loc'[t].header.sequence
                           > heap[core_loc[t].buffer].total_messages_written
                     /\ \A q \in StampedOn(core_loc[t].buffer) :
                           core_loc'[t].header.sequence > q
            /\ (WriteReturns(t) /\ core_last'[t].op = "write"
                   /\ core_last'[t].result # UMSBB_SUCCESS)
                  => /\ core_pc[t] \in {"idle", "w_find", "w_check"}
                     /\ \A b \in DOMAIN heap :
                           heap'[b].total_messages_written
                               = heap[b].total_messages_written
            /\ (core_pc[t] \in {"w_find", "w_check"} /\ core_pc'[t] # core_pc[t])
                  => \A b \in DOMAIN heap :
                        heap'[b].total_messages_written
                            = heap[b].total_messages_written]_vars

\* two umsbb_write_message calls on one buffer are under way at once, each
\* with its stamped header, and the one of thread 2 was stamped first
C21_Witness ==
    /\ StampHolders(1) = {1, 2}
    /\ core_loc[1].header.sequence = 2
    /\ core_loc[2].header.sequence = 1

\* the message stored at offset off of a segment has been written and not
\* read yet: it lies in the span from read_pos to write_pos
PendingAt(segment, off) ==
    /\ off \in DOMAIN segment.data
    /\ segment.data[off].intact
    /\ UGreater(segment.write_pos, segment.read_pos)
    /\ ((off + segment.size) - (segment.read_pos % segment.size)) % segment.size
           < segment.write_pos - segment.read_pos

\* C22: the memcpy of umsbb_write_message changes no byte of a message of
\* the same segment that was written and has not been read yet.
C22_NoOverwriteOfUnread ==
    [][\A t \in CoreThreads :
          (core_pc[t] = "w_copy" /\ core_pc'[t] = "w_pos") =>
              LET l == core_loc[t]
                  old == heap[l.buffer].segments[l.seg]
                  new == heap'[l.buffer].segments[l.seg]
              IN \A off \in DOMAIN old.data :
                    PendingAt(old, off)
                        => /\ off \in DOMAIN new.data
                           /\ new.data[off] = old.data[off]]_vars

\* a umsbb_read_message on the buffer would find it empty (lines 436-450)
Drained(buffer) ==
    LET segment == buffer.segments[umsbb_select_read_segment(buffer)]
    IN segment.message_count = 0 \/ segment.read_pos >= segment.write_pos

\* C23: when no call is under way and the buffer is drained (a read finds it
\* empty), as many messages have been read as were written and
\* current_pending_messages is 0.
C23_DrainedBalances ==
    \A b \in DOMAIN heap :
        ((\A t \in CoreThreads : core_pc[t] = "idle") /\ Drained(heap[b]))
            => /\ heap[b].total_messages_read = heap[b].total_messages_written
               /\ heap[b].current_pending_messages = 0

(***************************************************************************)
(* Claims about the RingBuffer, feedback                                   *)
(***************************************************************************)

\* C24: what a collectFeedback returns is a feedback a consumer wrote, with
\* the status and detail as written and with the msg_id of the message it
\* was written for; no written feedback is returned by two collectFeedback
\* calls; collectFeedback takes a slot only in state FEEDBACK and leaves it
\* FREE.
C24_FeedbackCollectedOnce ==
    /\ [](\A k \in DOMAIN rb_collected :
            /\ rb_collected[k].fb.status \in RbStatuses
            /\ rb_collected[k].fb.detail = RbDetail(rb_collected[k].fb.status)
            /\ rb_collected[k].msg_id = rb_collected[k].fb.of
            /\ \A j \in DOMAIN rb_collected :
                  j # k => rb_collected[j].fb.of # rb_collected[k].fb.of)
    /\ [][\A t \in RbThreads :
            (rb_pc[t] = "cf_take" /\ rb_pc'[t] = "idle")
                => /\ SlotOf(rb_loc[t].pid, rb_loc[t].i).state = FEEDBACK
                   /\ producers'[rb_loc[t].pid].slots[rb_loc[t].i].state = FREE]_vars

\* produce, consume, writeFeedback and collectFeedback have run on one
\* message: its feedback is collected and all slots are FREE
C24_Witness ==
    /\ RbAllIdle
    /\ Len(rb_accepted) = 1
    /\ Len(rb_collected) = 1
    /\ rb_collected[1].msg_id = rb_accepted[1].msg_id
    /\ \A p \in DOMAIN producers :
          producers[p] # Null =>
              \A i \in 0..(producers[p].slots_count - 1) : SlotOf(p, i).state = FREE

\* C25: a produce whose slot (head modulo slots_count) is in state FEEDBACK
\* reclaims the slot and goes on to write its message, so a producer that
\* never calls collectFeedback can produce again once its earlier messages
\* have been consumed and given feedback.
C25_ProduceReclaimsFeedback ==
    [][\A t \in RbThreads :
          (/\ rb_pc[t] = "p_cas"
           /\ rb_pc'[t] # "p_cas"
           /\ SlotOf(rb_loc[t].pid, rb_loc[t].idx).state = FEEDBACK)
              => rb_pc'[t] = "p_write"]_vars

(***************************************************************************)
(* Claims about umsbb_complete_core, many buffers                          *)
(***************************************************************************)

\* C26: from an empty registry and with no destroy, each of the first 256
\* umsbb_create_buffer calls with a valid size returns a handle that is not
\* 0, that no earlier call returned, and that names the buffer the call
\* built, as does every handle returned before; and the loop of
\* umsbb_get_next_handle ends with its first value.
C26_ManyBuffersLive ==
    Len(core_issued) <= 256 =>
        /\ \A i \in DOMAIN core_issued :
              /\ core_issued[i] # 0
              /\ heap[i].handle = core_issued[i]
              /\ GBuffer(core_issued[i]) = i
              /\ \A j \in DOMAIN core_issued : i # j => core_issued[i] # core_issued[j]
        /\ (core_last[1].op = "create" /\ core_last[1].result # 0) => ~core_last[1].spun

(***************************************************************************)
(* Claims about the lane buffers                                           *)
(***************************************************************************)

\* the changes of message state between two values of a lane buffer, as
\* pairs <<state before, state after>>
LaneStateChanges(before, after) ==
    {<<bi_buffer_get_message_state(before, i * SIZEOF_CAPSULE),
       bi_buffer_get_message_state(after, i * SIZEOF_CAPSULE)>> :
        i \in {k \in 0..(before.capacity \div SIZEOF_CAPSULE) :
                 bi_buffer_get_message_state(before, k * SIZEOF_CAPSULE)
                    # bi_buffer_get_message_state(after, k * SIZEOF_CAPSULE)}}

LaneDrainReturns == lane_left'.drain < lane_left.drain

\* C27: on a lane buffer, bi_buffer_claim and bi_buffer_commit change message
\* states only from FREE to READY and from FEEDBACK to FREE, and
\* bi_buffer_release only from READY to CONSUMING and from CONSUMING to
\* FEEDBACK.
C27_LaneTransitionsBySide ==
    [][/\ (LaneSubmitReturns /\ lane_last'.result = "accepted") =>
            LET old == bus.ring.buffers[lane_last'.lane]
                claimed == bi_buffer_claim(old, SIZEOF_CAPSULE)
                committed == bi_buffer_commit(claimed, SIZEOF_CAPSULE)
                moves == {<<MSG_STATE_FREE, MSG_STATE_READY>>,
                          <<MSG_STATE_FEEDBACK, MSG_STATE_FREE>>}
            IN /\ LaneStateChanges(old, claimed) \subseteq moves
               /\ LaneStateChanges(claimed, committed) \subseteq moves
               /\ LaneStateChanges(committed, bus'.ring.buffers[lane_last'.lane]) = {}
       /\ (LaneDrainReturns /\ lane_last'.result \in {"drained", "corrupted"}) =>
            LET old == bus.ring.buffers[lane_last'.lane]
                marked == bi_buffer_set_message_state(old, old.readIndex,
                                                      MSG_STATE_FEEDBACK)
                moves == {<<MSG_STATE_READY, MSG_STATE_CONSUMING>>,
                          <<MSG_STATE_CONSUMING, MSG_STATE_FEEDBACK>>}
            IN /\ LaneStateChanges(old, marked) \subseteq moves
               /\ LaneStateChanges(marked, bus'.ring.buffers[lane_last'.lane])
                      \subseteq moves]_vars

\* C28: in every state and for every segment of every buffer, read_pos is at
\* most write_pos and write_pos - read_pos is at most the segment's size.
C28_PositionsWithinSegment ==
    \A b \in DOMAIN heap :
        \A i \in DOMAIN heap[b].segments :
            LET segment == heap[b].segments[i]
            IN /\ segment.read_pos <= segment.write_pos
               /\ segment.write_pos - segment.read_pos <= segment.size

\* C29: a lane holding a committed message is visited before activeCount
\* somakernel_drain calls have gone to other lanes, however somakernel_submit
\* calls are interleaved with the drains.
C29_DrainsReachEveryLane ==
    \A lane \in DOMAIN lane_waits : lane_waits[lane] < bus.ring.activeCount

\* C30: a submit's bi_buffer_claim(buf, sizeof(MessageCapsule)) fails only
\* when the lane's bytes in flight plus the capsule exceed its capacity
\* (writeIndex - readIndex + size > capacity), however many messages the lane
\* has carried.
C30_ClaimSucceedsWhenItFits ==
    [][(/\ LaneSubmitReturns
        /\ lane_last'.result = "skipped"
        /\ bi_buffer_claim_ptr(bus.ring.buffers[lane_last'.lane], SIZEOF_CAPSULE) = NULL)
          => lane_last'.in_flight + SIZEOF_CAPSULE > lane_last'.capacity]_vars

\* C31: a drain_from call on a lane that holds a committed message which was
\* not drained yet processes a message: draining one message never makes a
\* later committed message of the lane unreadable.
C31_CommittedStaysReadable ==
    [][(/\ LaneDrainReturns
        /\ lane_last'.op = "drain_from"
        /\ lane_last'.in_flight >= SIZEOF_CAPSULE)
          => lane_last'.result \in {"drained", "corrupted"}]_vars

\* C32: a drain_from call that releases a message changes the state of one
\* slot only, the slot at the old readIndex, which ends FREE.
C32_ReleaseChangesOneSlot ==
    [][(LaneDrainReturns /\ lane_last'.result \in {"drained", "corrupted"}) =>
          LET old == bus.ring.buffers[lane_last'.lane]
              new == bus'.ring.buffers[lane_last'.lane]
          IN /\ bi_buffer_get_message_state(new, old.readIndex) = MSG_STATE_FREE
             /\ \A k \in 0..(old.capacity \div SIZEOF_CAPSULE) :
                    k # old.readIndex \div SIZEOF_CAPSULE
                      => bi_buffer_get_message_state(new, k * SIZEOF_CAPSULE)
                           = bi_buffer_get_message_state(old, k * SIZEOF_CAPSULE)]_vars

\* C33: with one submitting and one draining thread, whenever neither is
\* inside a call and bi_buffer_read on some lane would return a message, the
\* scheduler signal is true.
C33_SignalWhileReadable ==
    (lane_pc = LaneNoCalls /\ bus.kind = "somakernel" /\ HasMoreData(bus))
        => bus.scheduler.signal

\* C35: when no call is under way and no message was read yet,
\* peak_pending_messages is the largest value current_pending_messages has
\* taken, which is its present value: the number of messages written.
C35_PeakIsLargestPending ==
    \A b \in DOMAIN heap :
        ((\A t \in CoreThreads : core_pc[t] = "idle")
            /\ heap[b].total_messages_read = 0 /\ heap[b].failed_reads = 0)
            => /\ heap[b].current_pending_messages = heap[b].total_messages_written
               /\ heap[b].peak_pending_messages = heap[b].current_pending_messages

\* C36: every umsbb_submit_to (GPU path not taken) and every umsbb_drain_from
\* on a valid lane appends exactly one entry to bus->feedback.
C36_EveryOutcomeRecorded ==
    [][(/\ LaneSubmitReturns \/ LaneDrainReturns
        /\ bus.kind = "umsbb"
        /\ lane_last'.result \notin {"invalid", "gpu"})
          => /\ Len(bus'.feedback) = Len(bus.feedback) + 1
             /\ SubSeq(bus'.feedback, 1, Len(bus.feedback)) = bus.feedback]_vars

(***************************************************************************)
(* Claims about umsbb_wasm_core and the handshake manager                  *)
(***************************************************************************)

\* the messages stored in the segment from pos up to write_pos
RECURSIVE WasmUnreadFrom(_, _)
WasmUnreadFrom(segment, pos) ==
    IF pos >= segment.write_pos \/ pos \notin DOMAIN segment.data THEN 0
    ELSE 1 + WasmUnreadFrom(segment, pos + WASM_HEADER_SIZE + segment.data[pos].size)

\* the written messages that were not read and that reads can still return
RECURSIVE WasmUnread(_, _)
WasmUnread(buffer, n) ==
    IF n = 0 THEN 0
    ELSE WasmUnread(buffer, n - 1)
           + (IF buffer.segments[n - 1].message_count = 0 THEN 0
              ELSE WasmUnreadFrom(buffer.segments[n - 1], buffer.segments[n - 1].read_pos))

\* C34: stats.pending_messages is the number of written messages that were
\* not read yet and can still be returned by umsbb_read_message.
C34_PendingCountsUnread ==
    wasm_buffer.is_initialized = 1
        => wasm_buffer.stats.pending_messages
             = WasmUnread(wasm_buffer, wasm_buffer.num_segments)

\* the queued entries that wait for an acknowledgment
HsWaiting(m) ==
    {index \in HsQueued(m) :
        m.entries[index].state \in {HANDSHAKE_STATE_PENDING, HANDSHAKE_STATE_RETRY}}

\* C37: pending_count is the number of entries whose state is PENDING or
\* RETRY, after every sequence of sends, feedback messages, timeout passes
\* and retry passes.
C37_PendingCountMatches ==
    manager.capacity > 0 => manager.pending_count = Cardinality(HsWaiting(manager))

\* C38: in zero_loss_mode, a NACK or a timeout pass never gives an entry up:
\* no delivery is counted as failed and no entry is left NACKED or TIMEOUT.
C38_ZeroLossRetriesForEver ==
    [][(/\ hs_left' # hs_left
        /\ manager.zero_loss_mode
        /\ \/ hs_last'.op = "timeouts"
           \/ /\ hs_last'.op = "feedback"
              /\ hs_last'.feedback.type = FEEDBACK_TYPE_NACK
              /\ hs_last'.result)
          => /\ manager'.failed_deliveries = manager.failed_deliveries
             /\ \A index \in HsQueued(manager) :
                   manager'.entries[index].state \in
                       {HANDSHAKE_STATE_NACKED, HANDSHAKE_STATE_TIMEOUT}
                     => manager'.entries[index].state = manager.entries[index].state]_vars

\* C39: a handshake_send_message call that made an entry returns a non-zero
\* sequence number, and umsbb_send_reliable reports it as sent.
C39_RegisteredSendIsReported ==
    [][(/\ hs_left'.send < hs_left.send
        /\ hs_last'.registered)
          => /\ hs_last'.sequence # 0
             /\ hs_last'.reported = "sent"]_vars

====
